---- MODULE Spec2Model ----
(***************************************************************************)
(* Verification model of the xtra kernel's memory subsystem and of the     *)
(* bootloader's VirtIO block driver.                                       *)
(*                                                                         *)
(* Part 1: the intrusive free page list                                    *)
(*         (xtra-kernel/src/memory/mmu/free_page_list.rs).                 *)
(* Part 2: the SV39 page table                                             *)
(*         (xtra-kernel/src/arch/riscv_64/mmu/sv39/).                      *)
(* Part 3: VirtIoBlockDevice::read_sector                                  *)
(*         (xtra-bootloader/src/virtio.rs).                                *)
(* Part 4: the PageTableEntry predicates applied to entry values          *)
(*         (page_table_entry.rs).                                          *)
(* Part 5: harts calling AddressSpace methods under the spinlocks          *)
(*         (xtra-kernel/src/locking/, memory/mmu/address_space.rs).        *)
(* Part 6: VirtualPagePtr and the layout AddressSpace::new installs        *)
(*         (memory/mmu/virtual_page_ptr.rs, memory/mmu/address_space.rs).  *)
(* Part 7: the harts in main (xtra-kernel/src/main.rs).                    *)
(* Part 8: VirtIoBlockDevice::initialize (xtra-bootloader/src/virtio.rs).  *)
(* Part 9: read_sector statement by statement, BlockDevice::read_sector    *)
(*         (xtra-bootloader/src/virtio.rs, block_device.rs).               *)
(* Part 10: PageTableIterator (arch/riscv_64/mmu/sv39/page_table.rs).      *)
(*                                                                         *)
(* A Rust panic never returns (the panic handler spins).  With one caller  *)
(* it is recorded in the variable panic and no operation is enabled        *)
(* afterwards; in Part 5 the panicking hart stops and keeps its guards     *)
(* while the other harts go on.                                            *)
(* A page pointer is modelled by the physical address of the page it       *)
(* designates; Option::None is NONE.                                       *)
(***************************************************************************)
EXTENDS Integers, Sequences, FiniteSets, TLC

\* ------------------------------------------------------------------------
\* Bounds of the model.
\* ------------------------------------------------------------------------

\* Number of RAM pages the free list may hold.
NumPages == 4

\* Largest run handed to add_n_free_pages / asked of remove_n_free_pages.
MaxRun == 3

\* ------------------------------------------------------------------------
\* Program constants.
\* ------------------------------------------------------------------------

PAGE_SIZE == 4096

NONE == 0

\* The page frames of the modelled RAM region: PAGE_SIZE, 2*PAGE_SIZE, ...
Pages == {PAGE_SIZE * k : k \in 1..NumPages}

NoPanic == ""

\* ------------------------------------------------------------------------
\* State.
\* ------------------------------------------------------------------------
VARIABLES
    first_page,   \* FREE_PAGE_LIST.first_page
    last_page,    \* FREE_PAGE_LIST.last_page
    mem,          \* the FreeMemoryPage record stored inside every page
    panic,        \* NoPanic, or the tag of the assertion that halted the kernel
    call,         \* history: the last public call, its argument and result
    expected,     \* history: addresses inserted so far minus addresses popped
    runUsed,      \* history: insert_run or pop_run has been called
    misuse,       \* history: some call broke its own precondition
    root,         \* the page holding the root PageTable (AddressSpace.page_table)
    pt,           \* the PageTable stored in every RAM page: index -> entry
    ptcall,       \* history: the last page-table call, its arguments and result
    DESCRIPTORS,    \* the descriptor table shared with the block device
    AVAILABLE_RING, \* the available ring (driver writes)
    USED,           \* the used ring (device writes)
    READ_STATUS,    \* the status byte the device writes
    drv,            \* read_sector: position, arguments and locals of the call
    dev,            \* the block device: ring position, requests in flight
    buffers,        \* the contents of the callers' sector buffers
    vret,           \* history: the last read_sector call that returned
    pte,            \* a PageTableEntry value handed to the predicates
    pteClass,       \* what is_valid, is_leaf and is_page_table_ptr returned
    locked,         \* SpinLock.locked of FREE_PAGE_LOCK and of every AddressSpace
    harts,          \* every hart: the call it is in, its position and locals
    leaves,         \* every AddressSpace: the pages of its Automatic leaves
    SYSTEM_MEMORY,            \* the memory inventory init_memory_manager stored
    VIRTUAL_BASE_OFFSET,      \* virtual_page_ptr.rs: the atomic of that name
    HIGHEST_PHYSICAL_ADDRESS, \* virtual_page_ptr.rs: the atomic of that name
    KERNEL_IN_VIRTUAL_MODE,   \* virtual_page_ptr.rs: the atomic of that name
    vpcall,         \* history: the last VirtualPagePtr call, argument and result
    vptr,           \* the VirtualPagePtr built last and the call that built it
    spaces,         \* the address spaces AddressSpace::new has returned
    SYSTEM_BOOTED,  \* main.rs: the boot-complete flag
    cores,          \* every hart in main: its position
    regs,           \* the registers of the VirtIO MMIO device
    vinit,          \* initialize: position, locals and result of the call
    writes,         \* history: the register writes initialize has made
    rq,             \* history of read_sector: what each call found and did
    bd,             \* block_device.rs: the fields of a BlockDevice and its queue
    it              \* a PageTableIterator, its table and what it has yielded

listVars == <<first_page, last_page, mem, panic, call, expected, runUsed, misuse>>

ptVars == <<root, pt, ptcall>>

virtioVars == <<DESCRIPTORS, AVAILABLE_RING, USED, READ_STATUS, drv, dev, buffers, vret>>

pteVars == <<pte, pteClass>>

lockVars == <<locked, harts, leaves>>

ptrVars == <<SYSTEM_MEMORY, VIRTUAL_BASE_OFFSET, HIGHEST_PHYSICAL_ADDRESS,
             KERNEL_IN_VIRTUAL_MODE, vpcall, vptr, spaces>>

bootVars == <<SYSTEM_BOOTED, cores>>

mmioVars == <<regs, vinit, writes>>

ringVars == <<rq, bd, it>>

lateVars == <<ptrVars, bootVars, mmioVars, ringVars>>

\* ------------------------------------------------------------------------
\* FreeMemoryPage
\* ------------------------------------------------------------------------

\* struct FreeMemoryPage, cleared (FreeMemoryPage::clear leaves this value).
ClearedPage == [address |-> 0, prev_page |-> NONE, next_page |-> NONE]

\* FreeMemoryPage::new(address, None, None): zero the page, then write the
\* bookkeeping record at its start.
FreeMemoryPage_new(m, address) ==
    [m EXCEPT ![address] = [address |-> address,
                            prev_page |-> NONE,
                            next_page |-> NONE]]

\* FreeMemoryPage::clear
FreeMemoryPage_clear(m, p) == [m EXCEPT ![p] = ClearedPage]

\* ------------------------------------------------------------------------
\* FreePageList.  A list value L is [first_page, last_page, mem, panic].
\* ------------------------------------------------------------------------

FreePageList_new(m) ==
    [first_page |-> NONE, last_page |-> NONE, mem |-> m, panic |-> NoPanic]

Halt(L, tag) == [L EXCEPT !.panic = tag]

\* The assertion inside FreePageList::is_empty.
is_empty_assert(L) ==
    IF L.first_page = NONE THEN L.last_page = NONE ELSE L.last_page # NONE

\* FreePageList::is_empty (value; the assertion is is_empty_assert).
is_empty(L) == L.first_page = NONE

\* FreePageList::add_free_page_to_beginning
add_free_page_to_beginning(L, page) ==
    IF ~is_empty_assert(L) THEN Halt(L, "is_empty: inconsistent state")
    ELSE IF is_empty(L)
    THEN [L EXCEPT !.first_page = page, !.last_page = page]
    ELSE LET first_page_ptr == L.first_page IN
         IF L.mem[first_page_ptr].prev_page # NONE
         THEN Halt(L, "add_free_page_to_beginning: first page has a previous page")
         ELSE IF ~(L.mem[page].address > L.mem[first_page_ptr].address)
         THEN Halt(L, "add_free_page_to_beginning: address must be greater than first")
         ELSE [L EXCEPT !.mem = [@ EXCEPT ![page].next_page = first_page_ptr,
                                          ![first_page_ptr].prev_page = page],
                        !.first_page = page]

\* FreePageList::add_free_page_to_end
add_free_page_to_end(L, page) ==
    IF ~is_empty_assert(L) THEN Halt(L, "is_empty: inconsistent state")
    ELSE IF is_empty(L)
    THEN [L EXCEPT !.first_page = page, !.last_page = page]
    ELSE LET last_page_ptr == L.last_page IN
         IF L.mem[last_page_ptr].next_page # NONE
         THEN Halt(L, "add_free_page_to_end: last page has a next page")
         ELSE IF ~(L.mem[last_page_ptr].address < L.mem[page].address)
         THEN Halt(L, "add_free_page_to_end: address must be greater than last")
         ELSE [L EXCEPT !.mem = [@ EXCEPT ![last_page_ptr].next_page = page,
                                          ![page].prev_page = last_page_ptr],
                        !.last_page = page]

\* FreePageList::is_page_at_beginning: <<assertion holds, result>>
is_page_at_beginning(L, page) ==
    IF L.first_page # NONE
    THEN <<L.mem[L.first_page].address # L.mem[page].address,
           L.mem[L.first_page].address > L.mem[page].address>>
    ELSE <<TRUE, FALSE>>

\* FreePageList::is_page_at_end: <<assertion holds, result>>
is_page_at_end(L, page) ==
    IF L.last_page # NONE
    THEN <<L.mem[L.last_page].address # L.mem[page].address,
           L.mem[L.last_page].address < L.mem[page].address>>
    ELSE <<TRUE, FALSE>>

\* Result of a loop that never ends (the links form a cycle).
HANG == -1

\* The while loop of FreePageList::find_insertion_point.  A walk longer than
\* the number of pages is inside a cycle and never returns.
RECURSIVE find_insertion_loop(_, _, _, _)
find_insertion_loop(m, current_page_ptr, new_page_address, fuel) ==
    IF fuel = 0 THEN HANG
    ELSE LET next_page_ptr == m[current_page_ptr].next_page IN
         IF next_page_ptr # NONE
         THEN IF m[next_page_ptr].address > new_page_address
              THEN current_page_ptr
              ELSE find_insertion_loop(m, next_page_ptr, new_page_address, fuel - 1)
         ELSE current_page_ptr

\* FreePageList::find_insertion_point, called on a non-empty list: the page
\* found, NONE, or HANG.
find_insertion_point(L, new_page) ==
    IF is_empty(L) THEN NONE
    ELSE find_insertion_loop(L.mem, L.first_page, L.mem[new_page].address,
                             NumPages + 1)

\* FreePageList::insert_page
insert_page(L, new_page) ==
    IF ~is_empty_assert(L) THEN Halt(L, "is_empty: inconsistent state")
    ELSE IF is_empty(L) THEN add_free_page_to_end(L, new_page)
    ELSE IF ~is_page_at_end(L, new_page)[1]
    THEN Halt(L, "is_page_at_end: duplicate page")
    ELSE IF is_page_at_end(L, new_page)[2] THEN add_free_page_to_end(L, new_page)
    ELSE IF ~is_page_at_beginning(L, new_page)[1]
    THEN Halt(L, "is_page_at_beginning: duplicate page")
    ELSE IF is_page_at_beginning(L, new_page)[2]
    THEN add_free_page_to_beginning(L, new_page)
    ELSE LET parent_page == find_insertion_point(L, new_page) IN
         IF parent_page = HANG THEN Halt(L, "hang")
         ELSE IF parent_page = NONE
         THEN Halt(L, "insert_page: failed to find parent page")
         ELSE IF L.mem[parent_page].address = L.mem[new_page].address
         THEN Halt(L, "insert_page: duplicate page")
         ELSE LET original_next_page == L.mem[parent_page].next_page
                  m1 == [L.mem EXCEPT ![new_page].prev_page = parent_page,
                                      ![new_page].next_page = original_next_page,
                                      ![parent_page].next_page = new_page]
              IN IF original_next_page # NONE
                 THEN [L EXCEPT !.mem = [m1 EXCEPT
                                    ![original_next_page].prev_page = new_page]]
                 ELSE [L EXCEPT !.mem = m1, !.last_page = new_page]


\* Result of pages_are_contiguous_loop when it finds a gap.
GAP == -2

\* The while loop of FreePageList::pages_are_contiguous: GAP when a gap is
\* found, otherwise the page the loop stopped at (or HANG).
RECURSIVE pages_are_contiguous_loop(_, _, _, _)
pages_are_contiguous_loop(m, current_page, last_page_ptr, fuel) ==
    IF fuel = 0 THEN HANG
    ELSE IF m[current_page].address # m[last_page_ptr].address
    THEN LET next_page_ptr == m[current_page].next_page IN
         IF next_page_ptr # NONE
         THEN IF m[next_page_ptr].address # m[current_page].address + PAGE_SIZE
              THEN GAP
              ELSE pages_are_contiguous_loop(m, next_page_ptr, last_page_ptr,
                                             fuel - 1)
         ELSE current_page
    ELSE current_page

\* FreePageList::pages_are_contiguous: "true", "false", "assert" (its own
\* assertion failed) or "hang".
pages_are_contiguous(m, first_page_ptr, last_page_ptr) ==
    LET r == pages_are_contiguous_loop(m, first_page_ptr, last_page_ptr,
                                       NumPages + 1)
    IN IF r = HANG THEN "hang"
       ELSE IF r = GAP THEN "false"
       ELSE IF m[r].address = m[last_page_ptr].address THEN "true"
       ELSE "assert"

\* FreePageList::insert_page_list
insert_page_list(L, first_page_ptr, last_page_ptr) ==
    LET contiguous == pages_are_contiguous(L.mem, first_page_ptr, last_page_ptr) IN
    IF contiguous = "hang" THEN Halt(L, "hang")
    ELSE IF contiguous # "true"
    THEN Halt(L, "insert_page_list: pages are not contiguous")
    ELSE IF ~is_empty_assert(L) THEN Halt(L, "is_empty: inconsistent state")
    ELSE IF is_empty(L)
    THEN [L EXCEPT !.first_page = first_page_ptr, !.last_page = last_page_ptr]
    ELSE LET self_first_page == L.first_page IN
    IF L.mem[self_first_page].address > L.mem[first_page_ptr].address
    THEN IF ~(L.mem[self_first_page].address >= L.mem[last_page_ptr].address)
         THEN Halt(L, "insert_page_list: duplicate page (beginning)")
         ELSE LET m1 == [L.mem EXCEPT
                            ![last_page_ptr].next_page = self_first_page,
                            ![self_first_page].prev_page = last_page_ptr]
                  L1 == [L EXCEPT !.first_page = first_page_ptr, !.mem = m1]
              IN IF m1[self_first_page].prev_page # NONE
                 THEN Halt(L1, "insert_page_list: first page has a previous page")
                 ELSE L1
    ELSE LET self_last_page == L.last_page IN
    IF L.mem[self_last_page].address < L.mem[first_page_ptr].address
    THEN IF ~(L.mem[self_last_page].address <= L.mem[last_page_ptr].address)
         THEN Halt(L, "insert_page_list: duplicate page (end)")
         ELSE LET m1 == [L.mem EXCEPT
                            ![self_last_page].next_page = first_page_ptr,
                            ![first_page_ptr].prev_page = self_last_page]
                  L1 == [L EXCEPT !.last_page = last_page_ptr, !.mem = m1]
              IN IF m1[last_page_ptr].next_page # NONE
                 THEN Halt(L1, "insert_page_list: last page has a next page")
                 ELSE L1
    ELSE LET parent_page == find_insertion_point(L, first_page_ptr) IN
    IF parent_page = HANG THEN Halt(L, "hang")
    ELSE IF parent_page = NONE
    THEN Halt(L, "insert_page_list: failed to find parent page")
    ELSE IF L.mem[parent_page].address = L.mem[first_page_ptr].address
    THEN Halt(L, "insert_page_list: duplicate page")
    ELSE IF ~(L.mem[parent_page].address < L.mem[first_page_ptr].address)
    THEN Halt(L, "insert_page_list: page before parent page")
    ELSE LET original_next_page == L.mem[parent_page].next_page IN
    IF original_next_page = NONE
    THEN Halt(L, "insert_page_list: parent page has no next page")
    ELSE [L EXCEPT !.mem = [@ EXCEPT
                      ![parent_page].next_page = first_page_ptr,
                      ![first_page_ptr].prev_page = parent_page,
                      ![last_page_ptr].next_page = original_next_page,
                      ![original_next_page].prev_page = last_page_ptr]]

\* FreePageList::remove_page: [L, ret], ret the page removed or NONE.
remove_page(L) ==
    IF ~is_empty_assert(L)
    THEN [L |-> Halt(L, "is_empty: inconsistent state"), ret |-> NONE]
    ELSE IF is_empty(L) THEN [L |-> L, ret |-> NONE]
    ELSE LET page_ptr == L.first_page IN
         [L |-> [L EXCEPT !.first_page = L.mem[page_ptr].next_page],
          ret |-> page_ptr]

\* The while loop of FreePageList::find_contiguous_pages (count >= 2): the
\* last page of the run, or NONE.
RECURSIVE find_contiguous_loop(_, _, _, _)
find_contiguous_loop(m, current_page, pages_found, count) ==
    IF pages_found < count
    THEN LET next_page_ptr == m[current_page].next_page IN
         IF next_page_ptr # NONE
         THEN IF m[current_page].address + PAGE_SIZE = m[next_page_ptr].address
              THEN find_contiguous_loop(m, next_page_ptr, pages_found + 1, count)
              ELSE NONE
         ELSE NONE
    ELSE current_page

\* FreePageList::find_contiguous_pages
find_contiguous_pages(m, start_page_ptr, count) ==
    IF count = 0 THEN NONE
    ELSE IF count = 1 THEN start_page_ptr
    ELSE find_contiguous_loop(m, start_page_ptr, 1, count)

\* The while loop of FreePageList::remove_page_list (count >= 2).
RECURSIVE remove_page_list_loop(_, _, _, _)
remove_page_list_loop(L, current_page, count, fuel) ==
    IF current_page = NONE THEN [L |-> L, ret |-> NONE]
    ELSE IF fuel = 0 THEN [L |-> Halt(L, "hang"), ret |-> NONE]
    ELSE LET current_page_ptr == current_page
             last_page_ptr == find_contiguous_pages(L.mem, current_page_ptr, count)
         IN IF last_page_ptr # NONE
            THEN LET prev_page == L.mem[current_page_ptr].prev_page
                     next_page == L.mem[last_page_ptr].next_page
                     m1 == IF prev_page # NONE
                           THEN [L.mem EXCEPT ![prev_page].next_page = next_page]
                           ELSE L.mem
                     first1 == IF prev_page # NONE THEN L.first_page ELSE next_page
                     m2 == IF next_page # NONE
                           THEN [m1 EXCEPT ![next_page].prev_page = prev_page]
                           ELSE m1
                     last1 == IF next_page # NONE THEN L.last_page ELSE prev_page
                     m3 == [m2 EXCEPT ![current_page_ptr].prev_page = NONE,
                                      ![last_page_ptr].next_page = NONE]
                 IN [L |-> [L EXCEPT !.first_page = first1,
                                     !.last_page = last1,
                                     !.mem = m3],
                     ret |-> current_page_ptr]
            ELSE remove_page_list_loop(L, L.mem[current_page_ptr].next_page,
                                       count, fuel - 1)

\* FreePageList::remove_page_list
remove_page_list(L, count) ==
    IF ~(count > 0)
    THEN [L |-> Halt(L, "remove_page_list: zero pages"), ret |-> NONE]
    ELSE IF ~is_empty_assert(L)
    THEN [L |-> Halt(L, "is_empty: inconsistent state"), ret |-> NONE]
    ELSE IF is_empty(L) THEN [L |-> L, ret |-> NONE]
    ELSE IF count = 1 THEN remove_page(L)
    ELSE remove_page_list_loop(L, L.first_page, count, NumPages + 1)


\* ------------------------------------------------------------------------
\* The public interface of the free page list.  Option<usize> results are
\* [some |-> BOOLEAN, val |-> address].
\* ------------------------------------------------------------------------

None == [some |-> FALSE, val |-> 0]

Some(v) == [some |-> TRUE, val |-> v]

\* add_free_page (insert)
add_free_page(L, page_address) ==
    insert_page([L EXCEPT !.mem = FreeMemoryPage_new(L.mem, page_address)],
                page_address)

\* The for loop of add_n_free_pages: create pages index..count-1 and link
\* each behind its predecessor.
RECURSIVE add_n_free_pages_loop(_, _, _, _)
add_n_free_pages_loop(m, address, index, count) ==
    IF index >= count THEN m
    ELSE LET page_address == address + (index * PAGE_SIZE)
             current_page_ptr == address + ((index - 1) * PAGE_SIZE)
             m1 == FreeMemoryPage_new(m, page_address)
             m2 == [m1 EXCEPT ![current_page_ptr].next_page = page_address,
                              ![page_address].prev_page = current_page_ptr]
         IN add_n_free_pages_loop(m2, address, index + 1, count)

\* add_n_free_pages (insert_run)
add_n_free_pages(L, address, count) ==
    IF ~(count > 0) THEN Halt(L, "add_n_free_pages: count must be greater than zero")
    ELSE LET m1 == FreeMemoryPage_new(L.mem, address)
             m2 == add_n_free_pages_loop(m1, address, 1, count)
         IN insert_page_list([L EXCEPT !.mem = m2],
                             address, address + ((count - 1) * PAGE_SIZE))

\* remove_free_page (pop_one): [L, ret]
remove_free_page(L) ==
    LET r == remove_page(L) IN
    IF r.L.panic # NoPanic THEN [L |-> r.L, ret |-> None]
    ELSE IF r.ret # NONE
    THEN [L |-> [r.L EXCEPT !.mem = FreeMemoryPage_clear(@, r.ret)],
          ret |-> Some(r.L.mem[r.ret].address)]
    ELSE [L |-> r.L, ret |-> None]

\* The clearing loop of remove_n_free_pages: follow next_page from the page
\* returned by remove_page_list and clear every page met.
RECURSIVE clear_pages_loop(_, _, _)
clear_pages_loop(m, current_page_ptr, fuel) ==
    IF current_page_ptr = NONE THEN m
    ELSE IF fuel = 0 THEN m
    ELSE clear_pages_loop(FreeMemoryPage_clear(m, current_page_ptr),
                          m[current_page_ptr].next_page, fuel - 1)

\* remove_n_free_pages (pop_run): [L, ret]
remove_n_free_pages(L, count) ==
    LET r == remove_page_list(L, count) IN
    IF r.L.panic # NoPanic THEN [L |-> r.L, ret |-> None]
    ELSE IF r.ret # NONE
    THEN [L |-> [r.L EXCEPT !.mem = clear_pages_loop(@, r.ret, NumPages + 1)],
          ret |-> Some(r.L.mem[r.ret].address)]
    ELSE [L |-> r.L, ret |-> None]

\* ------------------------------------------------------------------------
\* Observing the list.
\* ------------------------------------------------------------------------

\* The pages reached from p along next_page, at most fuel of them.
RECURSIVE Chain(_, _, _)
Chain(m, p, fuel) ==
    IF p = NONE \/ fuel = 0 THEN <<>>
    ELSE <<p>> \o Chain(m, m[p].next_page, fuel - 1)

\* The nodes of the list, from the head (a cycle shows as a repeated page).
Nodes(L) == Chain(L.mem, L.first_page, NumPages + 1)

\* The address fields of the nodes of the list, from the head.
Addrs(L) == [i \in 1..Len(Nodes(L)) |-> L.mem[Nodes(L)[i]].address]

Range(s) == {s[i] : i \in 1..Len(s)}

StrictlyAscending(s) == \A i \in 1..(Len(s) - 1) : s[i] < s[i + 1]

\* The pages a, a + PAGE_SIZE, ... of a run of n pages.
RunPages(a, n) == {a + (i * PAGE_SIZE) : i \in 0..(n - 1)}

\* The current list as a list value.
Cur == [first_page |-> first_page, last_page |-> last_page,
        mem |-> mem, panic |-> panic]


\* ------------------------------------------------------------------------
\* SV39 virtual addresses.  TLC integers are 32 bits wide, so a 64-bit
\* virtual address is carried as its five bit fields:
\*   res = bits 63..39 (PTA_RESERVED), vpn2 = bits 38..30, vpn1 = bits 29..21,
\*   vpn0 = bits 20..12, off = bits 11..0.
\* ------------------------------------------------------------------------

VA(res, vpn2, vpn1, vpn0, off) ==
    [res |-> res, vpn2 |-> vpn2, vpn1 |-> vpn1, vpn0 |-> vpn0, off |-> off]

\* The assertion of VirtualAddress::new: no reserved bit is set.
VirtualAddress_new_assert(va) == va.res = 0

\* VirtualAddress::get_vpn
get_vpn(va, index) ==
    IF index = 0 THEN va.vpn0 ELSE IF index = 1 THEN va.vpn1 ELSE va.vpn2

\* VirtualAddress::get_offset
get_offset(va) == va.off

\* ------------------------------------------------------------------------
\* SV39 page table entries, carried as their bit fields:
\*   v r w x u g a d = bits 0..7, rsw = bits 9..8, ppn = bits 53..10,
\*   res = bits 63..54 (PTE_RESERVED).
\* ------------------------------------------------------------------------

\* PageTableEntry::new_invalid: PageTableEntry(0)
new_invalid ==
    [v |-> FALSE, r |-> FALSE, w |-> FALSE, x |-> FALSE, u |-> FALSE,
     g |-> FALSE, a |-> FALSE, d |-> FALSE, rsw |-> 0, ppn |-> 0, res |-> 0]

\* PageTableEntry::new: PageTableEntry(PTE_V)
PageTableEntry_new == [new_invalid EXCEPT !.v = TRUE]

\* PageTableEntry::is_valid
is_valid(e) == e.v /\ e.res = 0

\* PageTableEntry::is_page_table_ptr
is_page_table_ptr(e) ==
    IF ~e.v THEN FALSE
    ELSE IF e.r \/ e.w \/ e.x THEN FALSE
    ELSE TRUE

\* PageTableEntry::is_leaf
is_leaf(e) == is_valid(e) /\ ~is_page_table_ptr(e)

\* PageManagement, as encoded by set_page_management into the RSW bits.
PageManagementBits ==
    [Manual |-> 0, Automatic |-> 1, CopyOnWrite |-> 2, CowOwner |-> 3]

PageManagement == DOMAIN PageManagementBits

\* PageTableEntry::get_page_management
get_page_management(e) ==
    CHOOSE k \in PageManagement : PageManagementBits[k] = e.rsw

\* The address stored in the PPN fields: (ppn as usize) << 12.
ppn_address(e) == e.ppn * PAGE_SIZE

\* First address above the RAM of the model (HIGHEST_PHYSICAL_ADDRESS).
highest_physical_address == PAGE_SIZE * (NumPages + 1)

\* VirtualPagePtr::from_physical succeeds (Ok) for this address.
from_physical_ok(address) ==
    /\ address % PAGE_SIZE = 0
    /\ address # 0
    /\ address < highest_physical_address /\ address > 0

\* PageTableEntry::set_table_address on a fresh entry.
set_table_address(e, address) == [e EXCEPT !.res = 0, !.ppn = address \div PAGE_SIZE]

\* ------------------------------------------------------------------------
\* Page tables.  A kernel state S is [L, pt]: the free list value and the
\* PageTable view of every RAM page.  Only the entries at the indices the
\* modelled virtual addresses select are kept.
\* ------------------------------------------------------------------------

\* The entry indices used by the virtual addresses of the model, in
\* ascending order (the order in which a table's entries are dropped).
IdxSeq == <<0, 1, 2, 256>>

Idx == Range(IdxSeq)

\* PageTable::from_physical_address: every entry new_invalid.
EmptyTable == [i \in Idx |-> new_invalid]

HaltS(S, tag) == [S EXCEPT !.L = Halt(S.L, tag)]

\* let x = value in Body(x): the value of a call is computed once and named.
Bind(value, Body(_)) == Body(value)

ErrBadFreePagePtr == "Failed to create FreeMemoryPagePtr from address"

\* memory::mmu::free_page: add_free_page zeroes the page and inserts it.
\* FreeMemoryPage::new panics when the address is null or outside RAM.
free_page(S, physical_page_address) ==
    IF ~from_physical_ok(physical_page_address)
    THEN HaltS(S, ErrBadFreePagePtr)
    ELSE [L |-> add_free_page(S.L, physical_page_address),
          pt |-> [S.pt EXCEPT ![physical_page_address] = EmptyTable]]

\* A new_page_table_ptr that points the entry at the head of the free list
\* and leaves the page in the list.
new_page_table_ptr_shared(S) ==
    IF ~from_physical_ok(S.L.first_page)
    THEN [S |-> HaltS(S, "new_page_table_ptr: failed to allocate a page"),
          entry |-> new_invalid]
    ELSE [S |-> S, entry |-> set_table_address(PageTableEntry_new, S.L.first_page)]

\* PageTableEntry::new_page_table_ptr: [S, entry].  The page comes from
\* allocate_page (remove_free_page); its contents are not initialised.  They
\* are what FreeMemoryPage::new and FreeMemoryPage::clear left: zero words,
\* and possibly a stale page-aligned pointer, all with bit 0 (Valid) clear.
new_page_table_ptr(S) ==
    Bind(remove_free_page(S.L), LAMBDA r :
    IF r.L.panic # NoPanic THEN [S |-> [S EXCEPT !.L = r.L], entry |-> new_invalid]
    ELSE IF ~r.ret.some
    THEN [S |-> HaltS(S, "new_page_table_ptr: failed to allocate a page"),
          entry |-> new_invalid]
    ELSE IF ~from_physical_ok(r.ret.val)
    THEN [S |-> HaltS([S EXCEPT !.L = r.L],
                      "new_page_table_ptr: failed to create a page table pointer"),
          entry |-> new_invalid]
    ELSE [S |-> [S EXCEPT !.L = r.L],
          entry |-> set_table_address(PageTableEntry_new, r.ret.val)])

\* One level of PageTable::look_up_page_entry_mut: the child table behind
\* entry index of table tp, created when the entry is not valid.
\* [S, err, table].
look_up_level_mut(S, tp, index, err_not_ptr) ==
    LET e == S.pt[tp][index] IN
    IF is_valid(e)
    THEN IF ~is_page_table_ptr(e)
         THEN [S |-> S, err |-> err_not_ptr, table |-> NONE]
         ELSE IF ~from_physical_ok(ppn_address(e))
         THEN [S |-> HaltS(S, "get_table_address: bad physical address"),
               err |-> "", table |-> NONE]
         ELSE [S |-> S, err |-> "", table |-> ppn_address(e)]
    ELSE Bind(new_page_table_ptr(S), LAMBDA n :
         IF n.S.L.panic # NoPanic THEN [S |-> n.S, err |-> "", table |-> NONE]
         ELSE [S |-> [n.S EXCEPT !.pt[tp][index] = n.entry],
               err |-> "", table |-> ppn_address(n.entry)])

ErrVpn2NotPtr == "The entry at VPN[2] must be a page table pointer."

ErrVpn1NotPtr == "The entry at VPN[1] must be a page table pointer."

ErrVpn2Invalid == "The entry at VPN[2] is not a valid page table pointer."

ErrVpn1Invalid == "The entry at VPN[1] is not a valid page table pointer."

ErrNotLeaf == "The page table entry is not a leaf entry, it is a page table pointer."

ErrVaUnaligned == "Virtual address must be page aligned."

ErrPaInvalid == "Physical address must be page aligned and non-zero."

ErrAlreadyMapped == "The page has already been mapped."

\* PageTable::look_up_page_entry_mut on the table in page rt:
\* [S, err, table, index], the entry found being S.pt[table][index].
look_up_page_entry_mut(S, rt, va) ==
    Bind(look_up_level_mut(S, rt, get_vpn(va, 2), ErrVpn2NotPtr), LAMBDA l2 :
    IF l2.S.L.panic # NoPanic \/ l2.err # ""
    THEN [S |-> l2.S, err |-> l2.err, table |-> NONE, index |-> 0]
    ELSE Bind(look_up_level_mut(l2.S, l2.table, get_vpn(va, 1), ErrVpn1NotPtr),
              LAMBDA l1 :
         IF l1.S.L.panic # NoPanic \/ l1.err # ""
         THEN [S |-> l1.S, err |-> l1.err, table |-> NONE, index |-> 0]
         ELSE [S |-> l1.S, err |-> "", table |-> l1.table, index |-> get_vpn(va, 0)]))

\* One level of PageTable::look_up_page_entry: [err, panic, table].
look_up_level(S, tp, index, err_not_ptr, err_invalid) ==
    LET e == S.pt[tp][index] IN
    IF is_valid(e)
    THEN IF ~is_page_table_ptr(e)
         THEN [err |-> err_not_ptr, panic |-> FALSE, table |-> NONE]
         ELSE IF ~from_physical_ok(ppn_address(e))
         THEN [err |-> "", panic |-> TRUE, table |-> NONE]
         ELSE [err |-> "", panic |-> FALSE, table |-> ppn_address(e)]
    ELSE [err |-> err_invalid, panic |-> FALSE, table |-> NONE]

\* Results of the page-table calls: Ok(val), Err(tag), or a panic.
Ok(val) == [kind |-> "Ok", val |-> val, err |-> ""]

Err(tag) == [kind |-> "Err", val |-> None, err |-> tag]

Panicked == [kind |-> "Panic", val |-> None, err |-> ""]

\* PageTable::get_physical_address (translate) on the table in page rt.
get_physical_address(S, rt, va) ==
    IF ~VirtualAddress_new_assert(va) THEN Panicked
    ELSE Bind(look_up_level(S, rt, get_vpn(va, 2), ErrVpn2NotPtr, ErrVpn2Invalid),
              LAMBDA l2 :
    IF l2.panic THEN Panicked
    ELSE IF l2.err # "" THEN Err(l2.err)
    ELSE Bind(look_up_level(S, l2.table, get_vpn(va, 1), ErrVpn1NotPtr, ErrVpn1Invalid),
              LAMBDA l1 :
    IF l1.panic THEN Panicked
    ELSE IF l1.err # "" THEN Err(l1.err)
    ELSE LET entry == S.pt[l1.table][get_vpn(va, 0)] IN
    IF ~is_leaf(entry) THEN Err(ErrNotLeaf)
    ELSE Ok(Some(ppn_address(entry) + get_offset(va)))))

\* The leaf entry PageTable::map_page writes: set_valid, clear_accessed,
\* clear_dirty, the permission setters, set_page_management and
\* set_physical_address together overwrite every field of the entry.
map_page_entry(physical_address, permissions, page_management) ==
    [v |-> TRUE,
     r |-> permissions.readable,
     w |-> permissions.writable,
     x |-> permissions.executable,
     u |-> permissions.user_accessible,
     g |-> permissions.globally_accessible,
     a |-> FALSE,
     d |-> FALSE,
     rsw |-> PageManagementBits[page_management],
     ppn |-> physical_address \div PAGE_SIZE,
     res |-> 0]

\* map_page without the test of the entry found: it writes the new leaf over
\* whatever the slot holds.
map_page_overwrite(S, rt, va, physical_address, permissions, page_management) ==
    IF ~VirtualAddress_new_assert(va)
    THEN [S |-> HaltS(S, "VirtualAddress::new: reserved bits set"), ret |-> Panicked]
    ELSE IF get_offset(va) # 0 THEN [S |-> S, ret |-> Err(ErrVaUnaligned)]
    ELSE IF physical_address % PAGE_SIZE # 0 \/ physical_address = 0
    THEN [S |-> S, ret |-> Err(ErrPaInvalid)]
    ELSE Bind(look_up_page_entry_mut(S, rt, va), LAMBDA lk :
    IF lk.S.L.panic # NoPanic THEN [S |-> lk.S, ret |-> Panicked]
    ELSE IF lk.err # "" THEN [S |-> lk.S, ret |-> Err(lk.err)]
    ELSE [S |-> [lk.S EXCEPT !.pt[lk.table][lk.index] =
                    map_page_entry(physical_address, permissions, page_management)],
          ret |-> Ok(None)])

\* PageTable::map_page on the table in page rt: [S, ret].
map_page(S, rt, va, physical_address, permissions, page_management) ==
    IF ~VirtualAddress_new_assert(va)
    THEN [S |-> HaltS(S, "VirtualAddress::new: reserved bits set"), ret |-> Panicked]
    ELSE IF get_offset(va) # 0 THEN [S |-> S, ret |-> Err(ErrVaUnaligned)]
    ELSE IF physical_address % PAGE_SIZE # 0 \/ physical_address = 0
    THEN [S |-> S, ret |-> Err(ErrPaInvalid)]
    ELSE Bind(look_up_page_entry_mut(S, rt, va), LAMBDA lk :
    IF lk.S.L.panic # NoPanic THEN [S |-> lk.S, ret |-> Panicked]
    ELSE IF lk.err # "" THEN [S |-> lk.S, ret |-> Err(lk.err)]
    ELSE IF is_valid(lk.S.pt[lk.table][lk.index])
    THEN [S |-> lk.S, ret |-> Err(ErrAlreadyMapped)]
    ELSE [S |-> [lk.S EXCEPT !.pt[lk.table][lk.index] =
                    map_page_entry(physical_address, permissions, page_management)],
          ret |-> Ok(None)])

\* Bound on the nesting of set_invalid / drop_in_place: three table levels
\* plus one; deeper nesting only arises from a cycle of table pointers.
MaxDepth == 4

\* PageTableEntry::set_invalid (also PageTableEntry::drop) on entry index of
\* the table in page tp; drop_PageTable is drop_in_place of a PageTable, which
\* drops its entries in index order.
RECURSIVE set_invalid(_, _, _, _)
RECURSIVE drop_PageTable(_, _, _, _)
set_invalid(S, tp, index, fuel) ==
    LET e == S.pt[tp][index] IN
    IF S.L.panic # NoPanic THEN S
    ELSE IF is_page_table_ptr(e)
    THEN IF ~from_physical_ok(ppn_address(e))
         THEN HaltS(S, "get_table_address: bad physical address")
         ELSE IF fuel = 0
         THEN HaltS(S, "set_invalid: unbounded recursion")
         ELSE Bind(drop_PageTable(S, ppn_address(e), 1, fuel - 1), LAMBDA S1 :
              IF S1.L.panic # NoPanic THEN S1
              ELSE Bind(free_page(S1, ppn_address(e)), LAMBDA S2 :
                   IF S2.L.panic # NoPanic THEN S2
                   ELSE [S2 EXCEPT !.pt[tp][index] = new_invalid]))
    ELSE IF /\ is_leaf(e)
            /\ get_page_management(e) = "Automatic"
            /\ ppn_address(e) # 0
    THEN IF ~from_physical_ok(ppn_address(e))
         THEN HaltS(S, "set_invalid: bad physical address")
         ELSE Bind(free_page(S, ppn_address(e)), LAMBDA S2 :
              IF S2.L.panic # NoPanic THEN S2
              ELSE [S2 EXCEPT !.pt[tp][index] = new_invalid])
    ELSE [S EXCEPT !.pt[tp][index] = new_invalid]

drop_PageTable(S, tp, i, fuel) ==
    IF i > Len(IdxSeq) \/ S.L.panic # NoPanic THEN S
    ELSE drop_PageTable(set_invalid(S, tp, IdxSeq[i], fuel), tp, i + 1, fuel)

ErrUnmapUnaligned == "Virtual address must be page aligned and non-zero."

\* PageTable::unmap_page on the table in page rt: [S, ret].
unmap_page(S, rt, va) ==
    IF ~VirtualAddress_new_assert(va)
    THEN [S |-> HaltS(S, "VirtualAddress::new: reserved bits set"), ret |-> Panicked]
    ELSE IF get_offset(va) # 0 THEN [S |-> S, ret |-> Err(ErrUnmapUnaligned)]
    ELSE Bind(look_up_page_entry_mut(S, rt, va), LAMBDA lk :
    IF lk.S.L.panic # NoPanic THEN [S |-> lk.S, ret |-> Panicked]
    ELSE IF lk.err # "" THEN [S |-> lk.S, ret |-> Err(lk.err)]
    ELSE LET entry == lk.S.pt[lk.table][lk.index] IN
    IF get_page_management(entry) = "Manual" /\ is_page_table_ptr(entry)
    THEN [S |-> HaltS(lk.S, "get_physical_address: entry is a page table pointer"),
          ret |-> Panicked]
    ELSE LET freed_page == IF get_page_management(entry) = "Manual"
                           THEN Some(ppn_address(entry))
                           ELSE None
         IN Bind(set_invalid(lk.S, lk.table, lk.index, MaxDepth), LAMBDA S1 :
            IF S1.L.panic # NoPanic THEN [S |-> S1, ret |-> Panicked]
            ELSE [S |-> S1, ret |-> Ok(freed_page)]))

ErrNoFreePage == "Failed to allocate a page of memory from the free page list."

ErrMapFailed == "Failed to map page into address space."

\* AddressSpace::allocate_page: [S, ret].
AddressSpace_allocate_page(S, rt, va, permissions) ==
    Bind(remove_free_page(S.L), LAMBDA r :
    IF r.L.panic # NoPanic THEN [S |-> [S EXCEPT !.L = r.L], ret |-> Panicked]
    ELSE IF ~r.ret.some THEN [S |-> [S EXCEPT !.L = r.L], ret |-> Err(ErrNoFreePage)]
    ELSE Bind(map_page([S EXCEPT !.L = r.L], rt, va, r.ret.val, permissions, "Automatic"),
              LAMBDA m :
         IF m.ret.kind = "Panic" THEN m
         ELSE IF m.ret.kind = "Err"
         THEN Bind(free_page(m.S, r.ret.val), LAMBDA S2 :
              IF S2.L.panic # NoPanic THEN [S |-> S2, ret |-> Panicked]
              ELSE [S |-> S2, ret |-> Err(ErrMapFailed)])
         ELSE [S |-> m.S, ret |-> Ok(None)]))

\* AddressSpace::free_page: unmap, then hand the page unmap returned to the
\* free list.  [S, ret].
AddressSpace_free_page(S, rt, va) ==
    Bind(unmap_page(S, rt, va), LAMBDA u :
    IF u.ret.kind # "Ok" THEN u
    ELSE IF ~u.ret.val.some THEN [S |-> u.S, ret |-> Ok(None)]
    ELSE Bind(free_page(u.S, u.ret.val.val), LAMBDA S2 :
         IF S2.L.panic # NoPanic THEN [S |-> S2, ret |-> Panicked]
         ELSE [S |-> S2, ret |-> Ok(None)]))

\* Drop for PageBox<PageTable> (the drop of an AddressSpace): drop the root
\* table in place, then free its page.
PageBox_drop(S, rt) ==
    Bind(drop_PageTable(S, rt, 1, MaxDepth), LAMBDA S1 :
    IF S1.L.panic # NoPanic THEN S1
    ELSE free_page(S1, rt))

\* The loop of init_free_page_list: every RAM page from index k on is created
\* and appended, in ascending address order.
RECURSIVE init_free_page_list(_, _)
init_free_page_list(L, k) ==
    IF k > NumPages THEN L
    ELSE init_free_page_list(
             add_free_page_to_end([L EXCEPT !.mem = FreeMemoryPage_new(@, PAGE_SIZE * k)],
                                  PAGE_SIZE * k),
             k + 1)

\* PageBox::<PageTable>::new: take a page and build an empty PageTable in it.
\* [S, page].
PageBox_new(S) ==
    Bind(remove_free_page(S.L), LAMBDA r :
    IF r.L.panic # NoPanic THEN [S |-> [S EXCEPT !.L = r.L], page |-> NONE]
    ELSE IF ~r.ret.some
    THEN [S |-> HaltS(S, "PageBox::new: failed to allocate a page"), page |-> NONE]
    ELSE [S |-> [L |-> r.L, pt |-> [S.pt EXCEPT ![r.ret.val] = EmptyTable]],
          page |-> r.ret.val])

\* ------------------------------------------------------------------------
\* Observing the page table.
\* ------------------------------------------------------------------------

\* The current kernel state as a state value.
CurS == [L |-> Cur, pt |-> pt]

\* The tables an entry set of table tp points to (valid table pointers into RAM).
ChildTables(S, tp) ==
    {ppn_address(S.pt[tp][i]) : i \in {j \in Idx :
        /\ is_valid(S.pt[tp][j])
        /\ is_page_table_ptr(S.pt[tp][j])
        /\ from_physical_ok(ppn_address(S.pt[tp][j]))}}

\* The level-0 entry that the walk of look_up_page_entry reaches for va, or
\* new_invalid when an intermediate table is missing.
LeafEntry(S, rt, va) ==
    LET l2 == look_up_level(S, rt, get_vpn(va, 2), ErrVpn2NotPtr, ErrVpn2Invalid) IN
    IF l2.panic \/ l2.err # "" THEN new_invalid
    ELSE LET l1 == look_up_level(S, l2.table, get_vpn(va, 1),
                                 ErrVpn1NotPtr, ErrVpn1Invalid) IN
         IF l1.panic \/ l1.err # "" THEN new_invalid
         ELSE S.pt[l1.table][get_vpn(va, 0)]

\* The pages that hold the page tables of the address space rooted at rt.
TablePages(S, rt) ==
    LET second == ChildTables(S, rt)
        third == UNION {ChildTables(S, t) : t \in second}
    IN {rt} \cup second \cup third

\* ------------------------------------------------------------------------
\* The VirtIO block driver of the bootloader and its device.
\* ------------------------------------------------------------------------

\* Number of read_sector calls made.
MaxCalls == 3

\* Iterations of the polling loop before read_sector gives up; stands for the
\* initial value 10_000_000 of timeout.
PollLimit == 2

QUEUE_SIZE == 8

\* Sector numbers asked for, and the caller buffers passed.
Sectors == {17, 18}

BufIds == {1, 2}

\* The first bytes the disk stores in a sector (distinct per sector).
Disk == [s \in Sectors |-> 170 + s]

\* A buffer the device has not written.
Unwritten == 0

\* Addresses the descriptors carry: null, the request header on the stack of
\* read_sector, READ_STATUS, and the caller's buffer b.
AddrNull == 0

AddrRequest == 1

AddrStatus == 2

AddrBuffer(b) == 10 + b

VIRTQ_DESC_F_NEXT == 1

VIRTQ_DESC_F_WRITE == 2

\* Descriptor::zeroed
Descriptor_zeroed == [address |-> AddrNull, length |-> 0, flags |-> 0, next |-> 0]

\* The three descriptors read_sector writes for the caller's buffer b.
RequestChain(b) ==
    [i \in 0..2 |->
        IF i = 0 THEN [address |-> AddrRequest, length |-> 16,
                       flags |-> VIRTQ_DESC_F_NEXT, next |-> 1]
        ELSE IF i = 1 THEN [address |-> AddrBuffer(b), length |-> 512,
                            flags |-> VIRTQ_DESC_F_WRITE + VIRTQ_DESC_F_NEXT,
                            next |-> 2]
        ELSE [address |-> AddrStatus, length |-> 1,
              flags |-> VIRTQ_DESC_F_WRITE, next |-> 0]]

\* An index that is incremented without wrapping at 2^16.
wrapping_add_1_nowrap(index) == index + 1

\* u16 wrapping_add(1)
wrapping_add_1(index) == (index + 1) % 65536

\* read_sector is not running.
DriverIdle ==
    [pc |-> "idle", sector |-> 0, buffer |-> 0, starting_used_index |-> 0,
     timeout |-> 0, last_read |-> 0, calls |-> 0]

NoReturn == [sector |-> 0, buffer |-> 0, ret |-> "none", status |-> 255, data |-> Unwritten]

\* The statics as the program starts with them, and an idle device.
InitVirtioVars ==
    /\ DESCRIPTORS = [i \in 0..(QUEUE_SIZE - 1) |-> Descriptor_zeroed]
    /\ AVAILABLE_RING = [flags |-> 0, index |-> 0,
                         ring |-> [i \in 0..(QUEUE_SIZE - 1) |-> 0]]
    /\ USED = [flags |-> 0, index |-> 0]
    /\ READ_STATUS = 255
    /\ drv = DriverIdle
    /\ dev = [last_avail |-> 0, notified |-> FALSE, inflight |-> <<>>]
    /\ buffers = [b \in BufIds |-> Unwritten]
    /\ vret = NoReturn

\* ------------------------------------------------------------------------
\* Page-table entry predicates applied to entry values.
\* ------------------------------------------------------------------------

\* The values of the reserved field (bits 63..54) that are tried: clear,
\* bit 54 alone, bit 63 alone, all ten bits.
ReservedInputs == {0, 1, 512, 1023}

\* The entry values the predicates are applied to: every combination of
\* V, R, W and X, two managements, two page numbers and ReservedInputs.
PteInputs ==
    {[new_invalid EXCEPT !.v = f[1], !.r = f[2], !.w = f[3], !.x = f[4],
                         !.rsw = n[1], !.ppn = n[2], !.res = n[3]] :
        f \in BOOLEAN \X BOOLEAN \X BOOLEAN \X BOOLEAN,
        n \in {0, 1} \X {0, 2} \X ReservedInputs}

\* The predicates have not been applied.
NoClass == [done |-> FALSE, valid |-> FALSE, leaf |-> FALSE, table_ptr |-> FALSE]

InitPteVars ==
    /\ pte = new_invalid
    /\ pteClass = NoClass

\* ------------------------------------------------------------------------
\* Harts, spinlocks and address spaces.
\* ------------------------------------------------------------------------

\* Bounds: the harts that run and the address spaces they call into.
NumHarts == 2

NumSpaces == 2

Harts == 1..NumHarts

Spaces == 1..NumSpaces

\* Lock identities: FREE_PAGE_LOCK, and AddressSpace.lock of space a is a.
FREE_PAGE_LOCK == 0

Locks == {FREE_PAGE_LOCK} \cup Spaces

\* A hart that is in no call.
HartIdle ==
    [pc |-> "idle", op |-> "none", space |-> 0, phase |-> "none", created |-> 0,
     page |-> NONE, result |-> None, holds |-> {}]

InitLockVars ==
    /\ locked = [l \in Locks |-> FALSE]
    /\ harts = [h \in Harts |-> HartIdle]
    /\ leaves = [a \in Spaces |-> {}]

\* ------------------------------------------------------------------------
\* Addresses of the 64-bit machine.  A usize is carried as the number of the
\* 4 KiB page it lies in and its byte offset in that page.  Every address of
\* the model is below 2^40 and no subtraction is made below zero, so no
\* operation wraps at 2^64.
\* ------------------------------------------------------------------------

Address(page, off) == [page |-> page, off |-> off]

\* The null address.
Null == Address(0, 0)

\* a + b
usize_add(a, b) ==
    Address(a.page + b.page + ((a.off + b.off) \div PAGE_SIZE),
            (a.off + b.off) % PAGE_SIZE)

\* a - b, for a >= b
usize_sub(a, b) ==
    IF a.off >= b.off
    THEN Address(a.page - b.page, a.off - b.off)
    ELSE Address(a.page - b.page - 1, (a.off + PAGE_SIZE) - b.off)

\* a < b
usize_lt(a, b) == a.page < b.page \/ (a.page = b.page /\ a.off < b.off)

\* a <= b
usize_le(a, b) == a = b \/ usize_lt(a, b)

\* align_down(address, alignment), the alignment dividing PAGE_SIZE.
align_down(address, alignment) ==
    Address(address.page, (address.off \div alignment) * alignment)

\* align_up(address, alignment)
align_up(address, alignment) ==
    align_down(usize_add(address, Address(0, alignment - 1)), alignment)

\* The highest address of the Sv39 address space, 512 GiB - 1.
HIGHEST_VIRTUAL_ADDRESS == Address(134217727, PAGE_SIZE - 1)

HIGHEST_ADDRESS == Address(134217727, PAGE_SIZE - 1)

\* memory::mmu::VIRTUAL_BASE_OFFSET, the constant AddressSpace::new adds to a
\* RAM page: align_down(HIGHEST_ADDRESS - 0x1_0000_0000, PAGE_SIZE).
mmu_VIRTUAL_BASE_OFFSET ==
    align_down(usize_sub(HIGHEST_ADDRESS, Address(1048576, 0)), PAGE_SIZE)

\* ------------------------------------------------------------------------
\* The memory inventory (SystemMemory) and the kernel's sections.
\* ------------------------------------------------------------------------

\* Bound: the pages of a RAM region that lie outside the kernel image.
FreeRamPages == 2

\* MemoryDevice, MmioRegion, FlashDevice: base_address and range in bytes.
MemoryDevice(base_address, range) == [base_address |-> base_address, range |-> range]

\* The sections AddressSpace::new maps, in the order it maps them.
KernelSections == <<"text", "rodata", "data", "bss", "stack", "heap">>

\* An inventory with the RAM regions given, a UART at 0x1000_0000 and a flash
\* bank at 0x2000_0000, one page each.
SystemMemory(memory_devices) ==
    [flash_devices |-> <<MemoryDevice(Address(131072, 0), Address(1, 0))>>,
     memory_devices |-> memory_devices,
     mmio_regions |-> <<MemoryDevice(Address(65536, 0), Address(1, 0))>>]

\* The inventories the kernel is started with: RAM at 0x8000_0000; two RAM
\* regions with a gap of two pages between them; RAM that ends at 4 GiB.
\* The first region holds the kernel image, one page per section.
Inventories ==
    {SystemMemory(<<MemoryDevice(Address(524288, 0),
                                 Address(Len(KernelSections) + FreeRamPages, 0))>>),
     SystemMemory(<<MemoryDevice(Address(524288, 0),
                                 Address(Len(KernelSections) + FreeRamPages, 0)),
                    MemoryDevice(Address(524288 + Len(KernelSections) + FreeRamPages + 2, 0),
                                 Address(FreeRamPages, 0))>>),
     SystemMemory(<<MemoryDevice(Address(1048576 - (Len(KernelSections) + FreeRamPages), 0),
                                 Address(Len(KernelSections) + FreeRamPages, 0))>>)}

\* KernelMemoryLayout of a kernel loaded at the base of the first RAM region:
\* section i starts i - 1 pages above the base and is one page long.
KernelMemoryLayout_new(system_memory) ==
    [i \in 1..Len(KernelSections) |->
        [start |-> usize_add(system_memory.memory_devices[1].base_address,
                             Address(i - 1, 0)),
         size |-> Address(1, 0)]]

\* ------------------------------------------------------------------------
\* VirtualPagePtr (memory/mmu/virtual_page_ptr.rs).  The statics are passed
\* as arguments: highest is HIGHEST_PHYSICAL_ADDRESS, base is
\* VIRTUAL_BASE_OFFSET, mode is KERNEL_IN_VIRTUAL_MODE.  A result is
\* [kind, err, raw]: Ok with the raw_ptr stored, Err with the AddressError,
\* or a panic.  The debug_assert!s of the accessors are compiled in.
\* ------------------------------------------------------------------------

PtrOk(raw) == [kind |-> "Ok", err |-> "", raw |-> raw]

PtrErr(tag) == [kind |-> "Err", err |-> tag, raw |-> Null]

PtrPanic == [kind |-> "Panic", err |-> "", raw |-> Null]

\* The loop of init_virtual_base_offset: the highest end of a RAM device.
RECURSIVE highest_address_loop(_, _, _)
highest_address_loop(memory_devices, i, highest_address) ==
    IF i > Len(memory_devices) THEN highest_address
    ELSE LET end == usize_add(memory_devices[i].base_address, memory_devices[i].range)
         IN highest_address_loop(memory_devices, i + 1,
                IF usize_lt(highest_address, end) THEN end ELSE highest_address)

\* The values init_virtual_base_offset stores.
init_virtual_base_offset(system_memory) ==
    LET highest_address ==
            align_up(highest_address_loop(system_memory.memory_devices, 1, Null),
                     PAGE_SIZE)
    IN [HIGHEST_PHYSICAL_ADDRESS |-> highest_address,
        VIRTUAL_BASE_OFFSET |->
            align_down(usize_sub(HIGHEST_VIRTUAL_ADDRESS, highest_address), PAGE_SIZE)]

\* VirtualPagePtr::is_in_physical_address_space
is_in_physical_address_space(address, highest) ==
    usize_lt(address, highest) /\ usize_lt(Null, address)

\* VirtualPagePtr::is_in_virtual_address_space
is_in_virtual_address_space(address, base) ==
    usize_le(base, address) /\ usize_le(address, HIGHEST_VIRTUAL_ADDRESS)

\* VirtualPagePtr::from_physical
from_physical(address, highest, base) ==
    IF address.off # 0 THEN PtrErr("BadPageAlignment")
    ELSE IF highest = Null THEN PtrPanic
    ELSE IF address = Null THEN PtrErr("Null")
    ELSE IF ~is_in_physical_address_space(address, highest)
    THEN PtrErr("BadPhysicalAddress")
    ELSE IF base = Null THEN PtrPanic
    ELSE PtrOk(usize_add(base, address))

\* VirtualPagePtr::from_virtual
from_virtual(address, base) ==
    IF address.off # 0 THEN PtrErr("BadPageAlignment")
    ELSE IF base = Null THEN PtrPanic
    ELSE IF address = Null THEN PtrErr("Null")
    ELSE IF ~is_in_virtual_address_space(address, base)
    THEN PtrErr("BadVirtualAddress")
    ELSE PtrOk(address)

\* VirtualPagePtr::new_from_address
new_from_address(address, highest, base, mode) ==
    IF mode THEN from_virtual(address, base)
    ELSE from_physical(address, highest, base)

\* An as_usize that returns the stored pointer in either mode.
as_usize_stored(raw_ptr, base, mode) == PtrOk(raw_ptr)

\* VirtualPagePtr::as_usize: the stored pointer in virtual mode, devirtualize
\* of it in physical mode.
as_usize(raw_ptr, base, mode) ==
    IF mode THEN PtrOk(raw_ptr)
    ELSE IF base = Null THEN PtrPanic
    ELSE PtrOk(usize_sub(raw_ptr, base))

\* No VirtualPagePtr call has been made.
NoVpCall == [op |-> "none", arg |-> Null, ret |-> PtrErr(""), mode |-> FALSE]

\* No VirtualPagePtr has been built.
NoPtr == [built |-> "none", from |-> Null, raw |-> Null]

\* The statics of virtual_page_ptr.rs as the kernel starts with them, and the
\* inventory of a machine.
InitPtrVars ==
    /\ SYSTEM_MEMORY = SystemMemory(<<>>)
    /\ VIRTUAL_BASE_OFFSET = Null
    /\ HIGHEST_PHYSICAL_ADDRESS = Null
    /\ KERNEL_IN_VIRTUAL_MODE = FALSE
    /\ vpcall = NoVpCall
    /\ vptr = NoPtr
    /\ spaces = <<>>

\* main.rs: the cores the kernel has stacks for.
MAX_CORES == 4

\* Bound: the harts the boot loader starts in main.
NumCores == 3

\* The core_index of every hart.
Cores == 0..(NumCores - 1)

\* Every hart is at the entry of main; SYSTEM_BOOTED is false.
InitBootVars ==
    /\ SYSTEM_BOOTED = FALSE
    /\ cores = [c \in Cores |-> [pc |-> "main", polls |-> 0, executed |-> {},
                                  memory_info |-> SystemMemory(<<>>)]]

\* initialize has not been called and no register has been touched.
InitMmioVars ==
    /\ regs = <<>>
    /\ vinit = [pc |-> "none", result |-> "none"]
    /\ writes = <<>>

\* read_sector has not been called; no BlockDevice and no iterator exist.
InitRingVars ==
    /\ rq = <<>>
    /\ bd = <<>>
    /\ it = <<>>

InitLateVars ==
    /\ InitPtrVars
    /\ InitBootVars
    /\ InitMmioVars
    /\ InitRingVars

\* ------------------------------------------------------------------------
\* Actions of the free page list: one per public call.
\* ------------------------------------------------------------------------

NoCall == [op |-> "none", a |-> 0, n |-> 0, ret |-> None, pre |-> <<>>]

\* No page-table call has been made.
NoPtCall ==
    [op |-> "none", va |-> VA(0, 0, 0, 0, 0), pa |-> 0, rwx |-> FALSE,
     ret |-> Ok(None), pre |-> <<>>, preFree |-> <<>>, preTables |-> {},
     preLeaf |-> new_invalid, prePt |-> <<>>]

InitList ==
    /\ first_page = NONE
    /\ last_page = NONE
    /\ mem = [p \in Pages |-> ClearedPage]
    /\ panic = NoPanic
    /\ call = NoCall
    /\ expected = {}
    /\ runUsed = FALSE
    /\ misuse = FALSE
    /\ root = NONE
    /\ pt = [p \in Pages |-> EmptyTable]
    /\ ptcall = NoPtCall
    /\ InitVirtioVars
    /\ InitPteVars
    /\ InitLockVars
    /\ InitLateVars

SetList(L) ==
    /\ first_page' = L.first_page
    /\ last_page' = L.last_page
    /\ mem' = L.mem
    /\ panic' = L.panic

\* insert(a): add_free_page(a)
Insert(a) ==
    /\ panic = NoPanic
    /\ ~misuse
    /\ SetList(add_free_page(Cur, a))
    /\ call' = [op |-> "insert", a |-> a, n |-> 1, ret |-> None,
                pre |-> Addrs(Cur)]
    /\ expected' = expected \cup {a}
    /\ misuse' = (misuse \/ a \in expected)
    /\ UNCHANGED <<runUsed, ptVars, virtioVars, pteVars, lockVars, lateVars>>

\* insert_run(first, last): add_n_free_pages(a, n)
InsertRun(a, n) ==
    /\ panic = NoPanic
    /\ ~misuse
    /\ SetList(add_n_free_pages(Cur, a, n))
    /\ call' = [op |-> "insert_run", a |-> a, n |-> n, ret |-> None,
                pre |-> Addrs(Cur)]
    /\ expected' = expected \cup RunPages(a, n)
    /\ misuse' = (misuse \/ RunPages(a, n) \cap expected # {})
    /\ runUsed' = TRUE
    /\ UNCHANGED <<ptVars, virtioVars, pteVars, lockVars, lateVars>>

\* pop_one(): remove_free_page()
PopOne ==
    /\ panic = NoPanic
    /\ ~misuse
    /\ LET r == remove_free_page(Cur) IN
        /\ SetList(r.L)
        /\ call' = [op |-> "pop_one", a |-> 0, n |-> 1, ret |-> r.ret,
                    pre |-> Addrs(Cur)]
        /\ expected' = IF r.ret.some THEN expected \ {r.ret.val} ELSE expected
    /\ UNCHANGED <<runUsed, misuse, ptVars, virtioVars, pteVars, lockVars, lateVars>>

\* pop_run(n): remove_n_free_pages(n)
PopRun(n) ==
    /\ panic = NoPanic
    /\ ~misuse
    /\ LET r == remove_n_free_pages(Cur, n) IN
        /\ SetList(r.L)
        /\ call' = [op |-> "pop_run", a |-> 0, n |-> n, ret |-> r.ret,
                    pre |-> Addrs(Cur)]
        /\ expected' = IF r.ret.some
                       THEN expected \ RunPages(r.ret.val, n)
                       ELSE expected
    /\ runUsed' = TRUE
    /\ UNCHANGED <<misuse, ptVars, virtioVars, pteVars, lockVars, lateVars>>

NextList ==
    \/ \E a \in Pages : Insert(a)
    \/ \E a \in Pages : \E n \in 1..MaxRun :
          RunPages(a, n) \subseteq Pages /\ InsertRun(a, n)
    \/ PopOne
    \/ \E n \in 1..MaxRun : PopRun(n)

vars == <<listVars, ptVars, virtioVars, pteVars, lockVars, lateVars>>

Init == InitList

Next == NextList

Spec == Init /\ [][Next]_vars

\* ------------------------------------------------------------------------
\* Actions of the page table: one per call on the kernel address space.
\* ------------------------------------------------------------------------

\* The reserved field of an upper-half address: bits 63..39 all set.
ResAll == 33554431

\* The virtual pages the calls are made on: two pages of one third-level
\* table, a page of a second third-level table, and the page
\* 0xFFFF_FFC0_0000_1000 of the upper half.
VPages ==
    {VA(0, 0, 0, 1, 0), VA(0, 0, 0, 2, 0), VA(0, 0, 1, 0, 0),
     VA(ResAll, 256, 0, 1, 0)}

\* A virtual address that is not page aligned.
UnalignedVA == VA(0, 0, 0, 1, 291)

\* Byte offsets within a page: first, an inner one, last.
Offsets == {0, 291, PAGE_SIZE - 1}

\* A page outside the RAM handed to the free list (a device page).
DevicePage == highest_physical_address

\* Permissions::builder() results used by the calls.
Permissions(r, w, x, u, g) ==
    [readable |-> r, writable |-> w, executable |-> x,
     user_accessible |-> u, globally_accessible |-> g]

PermRW == Permissions(TRUE, TRUE, FALSE, FALSE, TRUE)

PermRX == Permissions(TRUE, FALSE, TRUE, TRUE, FALSE)

PermNone == Permissions(FALSE, FALSE, FALSE, FALSE, FALSE)

\* The (paddr, perms, mgmt) arguments passed to map: a device page and a RAM
\* page with usable permissions, a device page with R = W = X = 0, the null
\* address and an address that is not page aligned.
MapInputs ==
    {<<DevicePage, PermRW, "Manual">>,
     <<PAGE_SIZE * NumPages, PermRX, "CopyOnWrite">>,
     <<DevicePage, PermNone, "CopyOnWrite">>,
     <<0, PermRW, "Manual">>,
     <<PAGE_SIZE + 1, PermRW, "Manual">>}

\* The permissions passed to AddressSpace::allocate_page.
PermInputs == {PermRW, PermNone}

\* The translation of every virtual page, as get_physical_address returns it.
Translations(S, rt) ==
    [va \in VPages |-> get_physical_address(S, rt, va)]

\* memory manager initialised, kernel address space created: every RAM page
\* is on the free list except the one PageBox::new took for the root table.
InitPT ==
    LET L0 == init_free_page_list(FreePageList_new([p \in Pages |-> ClearedPage]), 1)
        b == PageBox_new([L |-> L0, pt |-> [p \in Pages |-> EmptyTable]])
    IN /\ first_page = b.S.L.first_page
       /\ last_page = b.S.L.last_page
       /\ mem = b.S.L.mem
       /\ panic = b.S.L.panic
       /\ call = NoCall
       /\ expected = Range(Addrs(b.S.L))
       /\ runUsed = FALSE
       /\ misuse = FALSE
       /\ root = b.page
       /\ pt = b.S.pt
       /\ ptcall = NoPtCall
    /\ InitVirtioVars
    /\ InitPteVars
    /\ InitLockVars
    /\ InitLateVars

SetS(S) ==
    /\ SetList(S.L)
    /\ pt' = S.pt

PtCall(op, va, pa, permissions, ret) ==
    [op |-> op, va |-> va, pa |-> pa,
     rwx |-> (permissions.readable \/ permissions.writable \/ permissions.executable),
     ret |-> ret,
     pre |-> Translations(CurS, root),
     preFree |-> Addrs(Cur),
     preTables |-> TablePages(CurS, root),
     preLeaf |-> IF va.res = 0 /\ va.off = 0 THEN LeafEntry(CurS, root, va)
                 ELSE new_invalid,
     prePt |-> pt]

\* map(vaddr, paddr, perms, mgmt): PageTable::map_page
MapPage(va, pa, permissions, page_management) ==
    /\ panic = NoPanic
    /\ root # NONE
    /\ LET m == map_page(CurS, root, va, pa, permissions, page_management) IN
        /\ SetS(m.S)
        /\ ptcall' = PtCall("map", va, pa, permissions, m.ret)
    /\ UNCHANGED <<root, call, expected, runUsed, misuse, virtioVars, pteVars, lockVars, lateVars>>

\* AddressSpace::allocate_page(vaddr, perms)
AllocatePage(va, permissions) ==
    /\ panic = NoPanic
    /\ root # NONE
    /\ LET m == AddressSpace_allocate_page(CurS, root, va, permissions) IN
        /\ SetS(m.S)
        /\ ptcall' = PtCall("allocate", va, 0, permissions, m.ret)
    /\ UNCHANGED <<root, call, expected, runUsed, misuse, virtioVars, pteVars, lockVars, lateVars>>

\* unmap(vaddr): PageTable::unmap_page
UnmapPage(va) ==
    /\ panic = NoPanic
    /\ root # NONE
    /\ LET m == unmap_page(CurS, root, va) IN
        /\ SetS(m.S)
        /\ ptcall' = PtCall("unmap", va, 0, PermNone, m.ret)
    /\ UNCHANGED <<root, call, expected, runUsed, misuse, virtioVars, pteVars, lockVars, lateVars>>

\* AddressSpace::free_page(vaddr)
FreePage(va) ==
    /\ panic = NoPanic
    /\ root # NONE
    /\ LET m == AddressSpace_free_page(CurS, root, va) IN
        /\ SetS(m.S)
        /\ ptcall' = PtCall("free", va, 0, PermNone, m.ret)
    /\ UNCHANGED <<root, call, expected, runUsed, misuse, virtioVars, pteVars, lockVars, lateVars>>

\* The AddressSpace is dropped: its PageBox<PageTable> drops the root table.
\* A panic halts the kernel with the handle still in place.
DropAddressSpace ==
    /\ panic = NoPanic
    /\ root # NONE
    /\ LET S2 == PageBox_drop(CurS, root) IN
        /\ SetS(S2)
        /\ ptcall' = PtCall("drop", VA(0, 0, 0, 0, 0), root, PermNone,
                            IF S2.L.panic # NoPanic THEN Panicked ELSE Ok(None))
        /\ root' = IF S2.L.panic # NoPanic THEN root ELSE NONE
    /\ UNCHANGED <<call, expected, runUsed, misuse, virtioVars, pteVars, lockVars, lateVars>>

NextPT ==
    \/ \E va \in VPages \cup {UnalignedVA} : \E args \in MapInputs :
          MapPage(va, args[1], args[2], args[3])
    \/ \E va \in VPages \cup {UnalignedVA} : \E permissions \in PermInputs :
          AllocatePage(va, permissions)
    \/ \E va \in VPages \cup {UnalignedVA} : UnmapPage(va)
    \/ \E va \in VPages : FreePage(va)
    \/ DropAddressSpace

SpecPT == InitPT /\ [][NextPT]_vars

\* ------------------------------------------------------------------------
\* Actions of the VirtIO block driver: the steps of read_sector, between
\* which the device may act.
\* ------------------------------------------------------------------------

\* read_sector(sector, buffer) up to the publication of the request: reset
\* READ_STATUS, write descriptors 0..2, put descriptor 0 in the ring slot of
\* the available index, advance the index.
Publish(sector, b) ==
    /\ drv.pc = "idle"
    /\ drv.calls < MaxCalls
    /\ READ_STATUS' = 255
    /\ DESCRIPTORS' = [i \in 0..(QUEUE_SIZE - 1) |->
                          IF i \in 0..2 THEN RequestChain(b)[i] ELSE DESCRIPTORS[i]]
    /\ AVAILABLE_RING' =
          [AVAILABLE_RING EXCEPT !.ring[AVAILABLE_RING.index % QUEUE_SIZE] = 0,
                                 !.index = wrapping_add_1(AVAILABLE_RING.index)]
    /\ drv' = [drv EXCEPT !.pc = "notify", !.sector = sector, !.buffer = b,
                          !.calls = drv.calls + 1]
    /\ UNCHANGED <<USED, dev, buffers, vret,
                   listVars, ptVars, pteVars, lockVars, lateVars>>

\* self.mmio.notify_queue(0)
Notify ==
    /\ drv.pc = "notify"
    /\ dev' = [dev EXCEPT !.notified = TRUE]
    /\ drv' = [drv EXCEPT !.pc = "sample"]
    /\ UNCHANGED <<DESCRIPTORS, AVAILABLE_RING, USED, READ_STATUS, buffers, vret,
                   listVars, ptVars, pteVars, lockVars, lateVars>>

\* starting_used_index, timeout and last_read are initialised.
Sample ==
    /\ drv.pc = "sample"
    /\ drv' = [drv EXCEPT !.pc = "poll",
                          !.starting_used_index = USED.index,
                          !.timeout = PollLimit,
                          !.last_read = USED.index]
    /\ UNCHANGED <<DESCRIPTORS, AVAILABLE_RING, USED, READ_STATUS, dev, buffers, vret,
                   listVars, ptVars, pteVars, lockVars, lateVars>>

\* A polling loop that does not count its iterations.
Poll_forever ==
    /\ drv.pc = "poll"
    /\ drv.last_read = drv.starting_used_index
    /\ drv.timeout > 0
    /\ drv' = [drv EXCEPT !.last_read = USED.index]
    /\ UNCHANGED <<DESCRIPTORS, AVAILABLE_RING, USED, READ_STATUS, dev, buffers, vret,
                   listVars, ptVars, pteVars, lockVars, lateVars>>

\* One iteration of the polling loop.
Poll ==
    /\ drv.pc = "poll"
    /\ drv.last_read = drv.starting_used_index
    /\ drv.timeout > 0
    /\ drv' = [drv EXCEPT !.timeout = drv.timeout - 1, !.last_read = USED.index]
    /\ UNCHANGED <<DESCRIPTORS, AVAILABLE_RING, USED, READ_STATUS, dev, buffers, vret,
                   listVars, ptVars, pteVars, lockVars, lateVars>>

\* The result read_sector returns once the loop has ended.
read_sector_result(timeout, status) ==
    IF timeout = 0 THEN "Timeout waiting for VirtIO block device response."
    ELSE IF status = 0 THEN "Ok"
    ELSE IF status = 1 THEN "VirtIO block device error: Invalid request."
    ELSE IF status = 2 THEN "VirtIO block device error: Device not ready."
    ELSE IF status = 3 THEN "VirtIO block device error: IO error."
    ELSE "Unknown VirtIO block device error."

\* The loop has ended: read_sector returns.
Return ==
    /\ drv.pc = "poll"
    /\ ~(drv.last_read = drv.starting_used_index /\ drv.timeout > 0)
    /\ vret' = [sector |-> drv.sector, buffer |-> drv.buffer,
                ret |-> read_sector_result(drv.timeout, READ_STATUS),
                status |-> READ_STATUS,
                data |-> buffers[drv.buffer]]
    /\ drv' = [DriverIdle EXCEPT !.calls = drv.calls]
    /\ UNCHANGED <<DESCRIPTORS, AVAILABLE_RING, USED, READ_STATUS, dev, buffers,
                   listVars, ptVars, pteVars, lockVars, lateVars>>

\* The device takes the next available request: it follows the descriptor
\* chain named by the ring slot and reads the request header.  The header is
\* a local of read_sector: once the call has returned its memory holds
\* whatever the stack holds by then.
DevFetch ==
    /\ dev.notified
    /\ dev.last_avail # AVAILABLE_RING.index
    /\ LET head == AVAILABLE_RING.ring[dev.last_avail % QUEUE_SIZE]
           d0 == DESCRIPTORS[head]
           d1 == DESCRIPTORS[d0.next]
           d2 == DESCRIPTORS[d1.next]
           next_avail == wrapping_add_1(dev.last_avail)
       IN \E sector \in Sectors :
            /\ drv.pc # "idle" => sector = drv.sector
            /\ dev' = [last_avail |-> next_avail,
                       notified |-> (next_avail # AVAILABLE_RING.index),
                       inflight |-> Append(dev.inflight,
                                           [sector |-> sector,
                                            data |-> d1.address,
                                            status |-> d2.address])]
    /\ UNCHANGED <<DESCRIPTORS, AVAILABLE_RING, USED, READ_STATUS, drv, buffers, vret,
                   listVars, ptVars, pteVars, lockVars, lateVars>>

\* The device completes the oldest request in flight: on success it stores
\* the sector in the data buffer; it stores the status byte and advances the
\* used index.
DevComplete(status) ==
    /\ dev.inflight # <<>>
    /\ LET req == Head(dev.inflight) IN
        /\ buffers' = IF status = 0
                      THEN [b \in BufIds |->
                              IF req.data = AddrBuffer(b) THEN Disk[req.sector]
                              ELSE buffers[b]]
                      ELSE buffers
        /\ READ_STATUS' = IF req.status = AddrStatus THEN status ELSE READ_STATUS
    /\ USED' = [USED EXCEPT !.index = wrapping_add_1(USED.index)]
    /\ dev' = [dev EXCEPT !.inflight = Tail(dev.inflight)]
    /\ UNCHANGED <<DESCRIPTORS, AVAILABLE_RING, drv, vret,
                   listVars, ptVars, pteVars, lockVars, lateVars>>

\* The statuses the device reports: VIRTIO_BLK_S_OK, VIRTIO_BLK_S_IOERR.
DevStatuses == {0, 1}

NextVirtio ==
    \/ \E sector \in Sectors : \E b \in BufIds : Publish(sector, b)
    \/ Notify
    \/ Sample
    \/ Poll
    \/ Return
    \/ DevFetch
    \/ \E status \in DevStatuses : DevComplete(status)

SpecVirtio == InitList /\ [][NextVirtio]_vars


\* ------------------------------------------------------------------------
\* Properties of the free page list.
\* ------------------------------------------------------------------------

\* The sequence s without the elements of the set S.
Without(s, S) == SelectSeq(s, LAMBDA x : x \notin S)

\* The least element of a non-empty set of addresses.
Lowest(S) == CHOOSE x \in S : \A y \in S : x <= y

\* The list is linked both ways: the head has no prev, the tail has no next,
\* last_page is the node reached from the head, and n.next.prev = n.
WellLinked(L) ==
    LET ns == Nodes(L) IN
    L.first_page # NONE =>
        /\ L.mem[ns[1]].prev_page = NONE
        /\ L.mem[ns[Len(ns)]].next_page = NONE
        /\ L.last_page = ns[Len(ns)]
        /\ \A i \in 1..(Len(ns) - 1) : L.mem[ns[i + 1]].prev_page = ns[i]

\* C1: after every call of a sequence of insert(a) (a not in the list) and
\* pop_one() on an initially empty list, the addresses reached from the head
\* are strictly ascending and their set is the addresses inserted so far
\* minus the addresses popped so far.
C1_SortedAndExact ==
    (~runUsed /\ ~misuse) =>
        /\ StrictlyAscending(Addrs(Cur))
        /\ Range(Addrs(Cur)) = expected

\* C4: after every public call that returns, a non-empty list is well
\* linked (head.prev = none, tail.next = none, last_page is the tail,
\* n.next.prev = n for every non-tail node).
C4_WellLinkedAfterCall ==
    (call.op # "none" /\ ~misuse /\ panic = NoPanic) => WellLinked(Cur)

\* C5: insert(a) of an address that is not in a sorted list completes without
\* an assertion failure and leaves the list sorted with a added, wherever a
\* falls (before the head, after the tail, in between).
C5_InsertCompletes ==
    (call.op = "insert" /\ ~misuse /\ StrictlyAscending(call.pre)) =>
        /\ panic = NoPanic
        /\ StrictlyAscending(Addrs(Cur))
        /\ Range(Addrs(Cur)) = Range(call.pre) \cup {call.a}

\* C6: pop_one returns the lowest address and removes exactly that page; on
\* an empty list (also one emptied by an earlier pop_one) it returns None;
\* an emptied list accepts later insert and pop_one calls.
C6_PopOne ==
    (~runUsed /\ ~misuse) =>
        /\ call.op = "pop_one" =>
              /\ panic = NoPanic
              /\ IF call.pre = <<>>
                 THEN call.ret = None /\ Addrs(Cur) = <<>>
                 ELSE /\ call.ret = Some(Lowest(Range(call.pre)))
                      /\ Addrs(Cur) = Without(call.pre, {call.ret.val})
        /\ (call.op = "insert" /\ call.pre = <<>>) =>
              (panic = NoPanic /\ Addrs(Cur) = <<call.a>>)

\* The lowest start of n consecutive pages in the set S, as a set (empty when
\* there is none).
RunStarts(S, n) == {a \in S : RunPages(a, n) \subseteq S}

\* C7: pop_run(n), n >= 1, returns the lowest a with a, a+4096, ...,
\* a+(n-1)*4096 all in the list, removes exactly those pages and leaves the
\* rest linked in ascending order; without such a it returns None and
\* changes nothing.
C7_PopRun ==
    (call.op = "pop_run" /\ ~misuse /\ StrictlyAscending(call.pre)) =>
        /\ panic = NoPanic
        /\ LET starts == RunStarts(Range(call.pre), call.n) IN
           IF starts = {}
           THEN call.ret = None /\ Addrs(Cur) = call.pre
           ELSE /\ call.ret = Some(Lowest(starts))
                /\ Addrs(Cur) = Without(call.pre, RunPages(Lowest(starts), call.n))

\* C8: insert_run of a run whose addresses are all absent completes, keeps
\* the list strictly ascending, and a following pop_run(n), 1 <= n <= run
\* length, returns the head of n pages at consecutive addresses.
C8_InsertRun ==
    (call.op = "insert_run" /\ ~misuse /\ StrictlyAscending(call.pre)) =>
        /\ panic = NoPanic
        /\ StrictlyAscending(Addrs(Cur))
        /\ Range(Addrs(Cur)) = Range(call.pre) \cup RunPages(call.a, call.n)
        /\ \A n \in 1..call.n :
              LET r == remove_n_free_pages(Cur, n) IN
              /\ r.L.panic = NoPanic
              /\ r.ret.some
              /\ RunPages(r.ret.val, n) \subseteq Range(Addrs(Cur))

\* C9: insert_run fails by assertion whenever an address of the run is
\* already in the list, so the list never holds a duplicate or an
\* out-of-order address.
C9_InsertRunRejectsDuplicates ==
    (/\ call.op = "insert_run"
     /\ StrictlyAscending(call.pre)
     /\ RunPages(call.a, call.n) \cap Range(call.pre) # {}) =>
        (panic # NoPanic /\ panic # "hang")

\* ------------------------------------------------------------------------
\* Properties of the page table.
\* ------------------------------------------------------------------------

\* The last call was map with a page-aligned vaddr and a page-aligned,
\* nonzero paddr.
MapWithValidAddresses ==
    /\ ptcall.op = "map"
    /\ ptcall.va \in VPages
    /\ ptcall.pa % PAGE_SIZE = 0
    /\ ptcall.pa # 0

\* translate(vaddr + off) in the current state.
TranslateAt(va, off) == get_physical_address(CurS, root, [va EXCEPT !.off = off])

\* C2: map of an unmapped page-aligned vaddr to a nonzero page-aligned paddr
\* with at least one of R/W/X returns Ok; afterwards translate(vaddr + off) is
\* paddr + off for every offset within the page, and the translation of every
\* other virtual page is what it was before the call.
C2_MapThenTranslate ==
    (/\ MapWithValidAddresses
     /\ ptcall.rwx
     /\ ptcall.pre[ptcall.va].kind # "Ok")
    => /\ ptcall.ret.kind = "Ok"
       /\ \A off \in Offsets :
             TranslateAt(ptcall.va, off) = Ok(Some(ptcall.pa + off))
       /\ \A other \in VPages \ {ptcall.va} :
             Translations(CurS, root)[other] = ptcall.pre[other]

\* What C10 promises of a map call on an already-mapped vaddr.
RejectedAsAlreadyMapped ==
    /\ ptcall.ret = Err(ErrAlreadyMapped)
    /\ panic = NoPanic
    /\ Translations(CurS, root)[ptcall.va] = ptcall.pre[ptcall.va]
    /\ Addrs(Cur) = ptcall.preFree
    /\ TablePages(CurS, root) = ptcall.preTables

\* C10 as stated: map on an already-mapped vaddr, with any paddr2, returns
\* AlreadyMapped and leaves the translation of vaddr, the free list and the
\* set of page-table pages as they were.
C10_AlreadyMappedAnyPaddr ==
    (/\ ptcall.op = "map"
     /\ ptcall.va \in VPages
     /\ ptcall.pre[ptcall.va].kind = "Ok")
    => RejectedAsAlreadyMapped

\* C10, amended: map on an already-mapped vaddr with a page-aligned, nonzero
\* paddr2 returns AlreadyMapped and leaves the translation of vaddr, the free
\* list and the set of page-table pages as they were.
C10_AlreadyMapped ==
    (/\ MapWithValidAddresses
     /\ ptcall.pre[ptcall.va].kind = "Ok")
    => RejectedAsAlreadyMapped

\* C10 witness: a map call with valid addresses on a mapped vaddr was rejected.
C10_Witness ==
    /\ MapWithValidAddresses
    /\ ptcall.pre[ptcall.va].kind = "Ok"
    /\ ptcall.ret = Err(ErrAlreadyMapped)

\* ------------------------------------------------------------------------
\* Properties of the VirtIO block driver.
\* ------------------------------------------------------------------------

\* C3: whenever read_sector(s, buf) returns Ok, buf holds the bytes the device
\* stores for sector s and the status byte is 0, for every call of a sequence,
\* calls after a timed-out call included.
C3_OkMeansSectorRead ==
    vret.ret = "Ok" => (vret.data = Disk[vret.sector] /\ vret.status = 0)

\* The last call was applied to a virtual page whose translation succeeded
\* before the call: a mapped leaf.
OnMappedLeaf(op) ==
    /\ ptcall.op = op
    /\ ptcall.va \in VPages
    /\ ptcall.pre[ptcall.va].kind = "Ok"

\* C11: unmap(vaddr) of a mapped leaf with physical page p returns Some(p)
\* and leaves the free list unchanged when the leaf is Manual, returns None
\* and adds exactly p to the free list when it is Automatic, returns None
\* and leaves the free list unchanged when it is CopyOnWrite or CowOwner; in
\* each case translate(vaddr) fails afterwards.
C11_UnmapMappedLeaf ==
    OnMappedLeaf("unmap") =>
        LET p == ppn_address(ptcall.preLeaf)
            management == get_page_management(ptcall.preLeaf)
        IN /\ panic = NoPanic
           /\ ptcall.ret.kind = "Ok"
           /\ management = "Manual" =>
                 /\ ptcall.ret.val = Some(p)
                 /\ Addrs(Cur) = ptcall.preFree
           /\ management = "Automatic" =>
                 /\ ptcall.ret.val = None
                 /\ Range(Addrs(Cur)) = Range(ptcall.preFree) \cup {p}
                 /\ Len(Addrs(Cur)) = Len(ptcall.preFree) + 1
           /\ management \in {"CopyOnWrite", "CowOwner"} =>
                 /\ ptcall.ret.val = None
                 /\ Addrs(Cur) = ptcall.preFree
           /\ get_physical_address(CurS, root, ptcall.va).kind = "Err"

\* C11, the part that the code keeps: the Manual and CopyOnWrite cases.
C11_UnmapNotAutomatic ==
    (OnMappedLeaf("unmap") /\ get_page_management(ptcall.preLeaf) # "Automatic")
        => C11_UnmapMappedLeaf

\* The last call was applied to a page-aligned lower-half virtual page that
\* was not mapped: an intermediate table was missing or the level-0 entry
\* was Invalid.
OnUnmappedPage(op) ==
    /\ ptcall.op = op
    /\ ptcall.va \in VPages
    /\ ptcall.va.res = 0
    /\ ptcall.pre[ptcall.va].kind = "Err"
    /\ ~is_valid(ptcall.preLeaf)

\* C12: unmap(vaddr) of a page-aligned vaddr that is not mapped returns an
\* error, allocates no page, and leaves the page table and the free list
\* unchanged.
C12_UnmapUnmapped ==
    OnUnmappedPage("unmap") =>
        /\ panic = NoPanic
        /\ ptcall.ret.kind = "Err"
        /\ Addrs(Cur) = ptcall.preFree
        /\ pt = ptcall.prePt

\* A canonical upper-half SV39 address: bits 63..39 all ones, bit 38 set.
UpperHalf(va) == va.res = ResAll /\ va.vpn2 >= 256

\* C13: map, translate and unmap accept canonical upper-half SV39 virtual
\* addresses such as 0xFFFF_FFC0_0000_1000: a call made on one returns to
\* its caller, and translate of one returns a result in every state.
C13_UpperHalfAccepted ==
    /\ (ptcall.op \in {"map", "unmap"} /\ UpperHalf(ptcall.va)) =>
          /\ panic = NoPanic
          /\ ptcall.ret.kind # "Panic"
    /\ \A va \in {v \in VPages : UpperHalf(v)} :
          root # NONE => get_physical_address(CurS, root, va).kind # "Panic"

\* The pages in the free list.
FreeSet == Range(Nodes(Cur))

\* The (table page, index) cells of the first two levels that hold a table
\* pointer to page p.
TablePointersTo(p) ==
    LET upper == {root} \cup ChildTables(CurS, root) IN
    {c \in upper \X Idx :
        /\ is_valid(pt[c[1]][c[2]])
        /\ is_page_table_ptr(pt[c[1]][c[2]])
        /\ ppn_address(pt[c[1]][c[2]]) = p}

\* The level-0 tables of the address space rooted at rt.
LeafTablesIn(S, rt) == UNION {ChildTables(S, t) : t \in ChildTables(S, rt)}

\* The pages mapped by a valid level-0 entry with one of the managements.
LeavesIn(S, rt, managements) ==
    {ppn_address(S.pt[c[1]][c[2]]) : c \in {c \in LeafTablesIn(S, rt) \X Idx :
        /\ is_valid(S.pt[c[1]][c[2]])
        /\ get_page_management(S.pt[c[1]][c[2]]) \in managements}}

AutomaticLeaves == LeavesIn(CurS, root, {"Automatic"})

PageClassesDisjoint ==
    /\ Len(Nodes(Cur)) = Cardinality(FreeSet)
    /\ FreeSet \cap TablePages(CurS, root) = {}
    /\ FreeSet \cap AutomaticLeaves = {}
    /\ TablePages(CurS, root) \cap AutomaticLeaves = {}

TablesSolelyOwned ==
    /\ TablePointersTo(root) = {}
    /\ \A t \in TablePages(CurS, root) \ {root} : Cardinality(TablePointersTo(t)) = 1

PreS == [L |-> Cur, pt |-> ptcall.prePt]

\* C15: invalidating or dropping a table-pointer entry returns to the free
\* list, exactly once each, the child table's page, every descendant table
\* page and every Automatic leaf page below it, returns no Manual,
\* CopyOnWrite or CowOwner leaf page, and leaves the entry all-zero.  Checked
\* on the drop of an address space whose root holds a table pointer: every
\* root entry is dropped, then the root page itself is freed.
C15_DropReturnsSubtree ==
    (ptcall.op = "drop" /\ ptcall.preTables # {ptcall.pa}) =>
        LET rt == ptcall.pa
            owned == ptcall.preTables \cup LeavesIn(PreS, rt, {"Automatic"})
            foreign == LeavesIn(PreS, rt, {"Manual", "CopyOnWrite", "CowOwner"})
                           \ (owned \cup Range(ptcall.preFree))
        IN /\ panic = NoPanic
           /\ Len(Nodes(Cur)) = Cardinality(FreeSet)
           /\ FreeSet = Range(ptcall.preFree) \cup owned
           /\ FreeSet \cap foreign = {}
           /\ \A i \in Idx : pt[rt][i] = new_invalid

\* The last allocate_page call failed inside map: the virtual address was
\* lower-half and either not page aligned or already mapped, and a page was
\* there to pop.
AllocateFailedInMap ==
    /\ ptcall.op = "allocate"
    /\ ptcall.va.res = 0
    /\ ptcall.preFree # <<>>
    /\ \/ ptcall.va.off # 0
       \/ ptcall.va \in VPages /\ is_valid(ptcall.preLeaf)

\* C17: if AddressSpace::allocate_page(vaddr, perms) fails in map (vaddr is
\* already mapped or not page aligned), it returns an error to the caller
\* and the free list holds exactly the same set of pages, in sorted order,
\* as before the call.
C17_AllocateFailureRestoresList ==
    AllocateFailedInMap =>
        /\ panic = NoPanic
        /\ ptcall.ret.kind = "Err"
        /\ Range(Addrs(Cur)) = Range(ptcall.preFree)
        /\ Len(Addrs(Cur)) = Len(ptcall.preFree)
        /\ StrictlyAscending(Addrs(Cur))

\* The pages an allocate_page(va) needs: the data page and one page for each
\* intermediate table missing on the walk to va.
PagesNeeded(S, rt, va) ==
    LET l2 == look_up_level(S, rt, get_vpn(va, 2), ErrVpn2NotPtr, ErrVpn2Invalid) IN
    IF l2.err = ErrVpn2Invalid THEN 3
    ELSE IF l2.panic \/ l2.err # "" THEN 1
    ELSE LET l1 == look_up_level(S, l2.table, get_vpn(va, 1),
                                 ErrVpn1NotPtr, ErrVpn1Invalid) IN
         IF l1.err = ErrVpn1Invalid THEN 2 ELSE 1

\* The last allocate_page call was made on an unmapped page-aligned
\* lower-half page with fewer pages in the free list than it needs.
AllocateOutOfMemory ==
    /\ ptcall.op = "allocate"
    /\ ptcall.va \in VPages
    /\ ptcall.va.res = 0
    /\ ~is_valid(ptcall.preLeaf)
    /\ Len(ptcall.preFree) < PagesNeeded(PreS, root, ptcall.va)

\* C18: when the free list has no page left, either for the data page or
\* for an intermediate page table that map has to create, allocate_page
\* returns an error result instead of panicking, and the address space's
\* mappings are unchanged.
C18_OutOfMemoryIsAnError ==
    AllocateOutOfMemory =>
        /\ panic = NoPanic
        /\ ptcall.ret.kind = "Err"
        /\ Translations(CurS, root) = ptcall.pre

\* ------------------------------------------------------------------------
\* The page-table entry predicates as a specification of their own: an entry
\* value is chosen, then is_valid, is_leaf and is_page_table_ptr are applied.
\* ------------------------------------------------------------------------

InitPTE ==
    /\ first_page = NONE
    /\ last_page = NONE
    /\ mem = [p \in Pages |-> ClearedPage]
    /\ panic = NoPanic
    /\ call = NoCall
    /\ expected = {}
    /\ runUsed = FALSE
    /\ misuse = FALSE
    /\ root = NONE
    /\ pt = [p \in Pages |-> EmptyTable]
    /\ ptcall = NoPtCall
    /\ InitVirtioVars
    /\ pte \in PteInputs
    /\ pteClass = NoClass
    /\ InitLockVars
    /\ InitLateVars

Classify ==
    /\ ~pteClass.done
    /\ pteClass' = [done |-> TRUE,
                    valid |-> is_valid(pte),
                    leaf |-> is_leaf(pte),
                    table_ptr |-> is_page_table_ptr(pte)]
    /\ UNCHANGED <<pte, listVars, ptVars, virtioVars, lockVars, lateVars>>

NextPTE == Classify

SpecPTE == InitPTE /\ [][NextPTE]_vars

\* C16: for every entry value, is_leaf and is_table_pointer are never both
\* true, both are false when Valid = 0, and both are false whenever any
\* reserved high bit (bits 63..54) is set.
C16_EntryStates ==
    pteClass.done =>
        /\ ~(pteClass.leaf /\ pteClass.table_ptr)
        /\ ~pte.v => (~pteClass.leaf /\ ~pteClass.table_ptr)
        /\ pte.res # 0 => (~pteClass.leaf /\ ~pteClass.table_ptr)

\* C16, the part that the code keeps: never both, and neither when Valid = 0
\* or when the entry is a leaf candidate with a reserved bit set.
C16_EntryStatesKept ==
    pteClass.done =>
        /\ ~(pteClass.leaf /\ pteClass.table_ptr)
        /\ ~pte.v => (~pteClass.leaf /\ ~pteClass.table_ptr)
        /\ pte.res # 0 => ~pteClass.leaf

\* ------------------------------------------------------------------------
\* Harts calling into address spaces.  The free page list is the list of
\* Part 1; of a page table only the walk (how many intermediate tables it
\* still has to create) and the Automatic leaves are kept.  Every step of a
\* hart between two lock operations is one action.
\* ------------------------------------------------------------------------

\* A walk creates at most the level-1 and the level-0 table.
MaxTables == 2

\* One iteration of the loop of SpinLock::lock: swap(true) stores true and
\* returns the old value; the lock is taken when the old value was false.
SpinLock_lock_blind(lk, l) ==
    [locked |-> [lk EXCEPT ![l] = TRUE], acquired |-> TRUE]

SpinLock_lock(lk, l) ==
    [locked |-> [lk EXCEPT ![l] = TRUE], acquired |-> ~lk[l]]

\* SpinLock::unlock: store(false).
SpinLock_unlock(lk, l) == [lk EXCEPT ![l] = FALSE]

\* The kernel's address spaces are constructed one after the other: each
\* takes the page of its root table from the free list (PageBox::new).
RECURSIVE ConstructSpaces(_, _)
ConstructSpaces(S, n) ==
    IF n = 0 THEN S ELSE ConstructSpaces(PageBox_new(S).S, n - 1)

InitLocks ==
    LET L0 == init_free_page_list(FreePageList_new([p \in Pages |-> ClearedPage]), 1)
        S == ConstructSpaces([L |-> L0, pt |-> [p \in Pages |-> EmptyTable]], NumSpaces)
    IN /\ first_page = S.L.first_page
       /\ last_page = S.L.last_page
       /\ mem = S.L.mem
       /\ panic = S.L.panic
       /\ call = NoCall
       /\ expected = Range(Addrs(S.L))
       /\ runUsed = FALSE
       /\ misuse = FALSE
       /\ root = NONE
       /\ pt = S.pt
       /\ ptcall = NoPtCall
    /\ InitVirtioVars
    /\ InitPteVars
    /\ InitLockVars
    /\ InitLateVars

SetHart(h, r) == harts' = [harts EXCEPT ![h] = r]

\* The hart calls memory::mmu::allocate_page() or memory::mmu::free_page(page);
\* phase names the call site.
CallFree(r, phase) == [r EXCEPT !.pc = "F_lock", !.phase = phase]

\* The panic handler: the hart spins for ever; its guards are never dropped.
HartPanic(r) == [HartIdle EXCEPT !.pc = "panicked", !.holds = r.holds]

\* AddressSpace::allocate_page(vaddr, perms) is called: allocate_page() first.
StartAllocate(h, a) ==
    /\ harts[h].pc = "idle"
    /\ SetHart(h, CallFree([HartIdle EXCEPT !.op = "allocate_page", !.space = a],
                           "pop_data"))
    /\ UNCHANGED <<locked, leaves, listVars, ptVars, virtioVars, pteVars, lateVars>>

\* AddressSpace::free_page(vaddr) is called.
StartFree(h, a) ==
    /\ harts[h].pc = "idle"
    /\ SetHart(h, [HartIdle EXCEPT !.op = "free_page", !.space = a, !.pc = "A_lock"])
    /\ UNCHANGED <<locked, leaves, listVars, ptVars, virtioVars, pteVars, lateVars>>

\* AddressSpace::map_page(vaddr, paddr, perms) is called.
StartMap(h, a) ==
    /\ harts[h].pc = "idle"
    /\ SetHart(h, [HartIdle EXCEPT !.op = "map_page", !.space = a, !.pc = "A_lock"])
    /\ UNCHANGED <<locked, leaves, listVars, ptVars, virtioVars, pteVars, lateVars>>

\* AddressSpace::unmap_page(vaddr) is called.
StartUnmap(h, a) ==
    /\ harts[h].pc = "idle"
    /\ SetHart(h, [HartIdle EXCEPT !.op = "unmap_page", !.space = a, !.pc = "A_lock"])
    /\ UNCHANGED <<locked, leaves, listVars, ptVars, virtioVars, pteVars, lateVars>>

\* AddressSpace::get_physical_address(vaddr) (translate) is called.
StartTranslate(h, a) ==
    /\ harts[h].pc = "idle"
    /\ SetHart(h, [HartIdle EXCEPT !.op = "get_physical_address", !.space = a,
                                   !.pc = "A_lock"])
    /\ UNCHANGED <<locked, leaves, listVars, ptVars, virtioVars, pteVars, lateVars>>

\* LockGuard::new(&FREE_PAGE_LOCK): one iteration of the spin loop.
AcquireFree(h) ==
    /\ harts[h].pc = "F_lock"
    /\ LET r == SpinLock_lock(locked, FREE_PAGE_LOCK) IN
        /\ locked' = r.locked
        /\ IF r.acquired
           THEN SetHart(h, [harts[h] EXCEPT !.pc = "F_op",
                                            !.holds = @ \cup {FREE_PAGE_LOCK}])
           ELSE UNCHANGED harts
    /\ UNCHANGED <<leaves, listVars, ptVars, virtioVars, pteVars, lateVars>>

\* The hart after memory::mmu::allocate_page() returned got to it: the guard
\* is dropped; AddressSpace::allocate_page returns an error on None,
\* new_page_table_ptr panics on None (.expect).
AfterPop(r, got) ==
    LET u == [r EXCEPT !.holds = @ \ {FREE_PAGE_LOCK}] IN
    IF r.phase = "pop_data"
    THEN IF ~got.some THEN HartIdle
         ELSE [u EXCEPT !.pc = "A_lock", !.page = got.val, !.phase = "none"]
    ELSE IF ~got.some THEN HartPanic(u)
         ELSE [u EXCEPT !.pc = "pt", !.created = @ + 1, !.phase = "none"]

\* The hart after memory::mmu::free_page(page) returned: the guard is dropped.
AfterPush(r) ==
    LET u == [r EXCEPT !.holds = @ \ {FREE_PAGE_LOCK}, !.phase = "none"] IN
    IF r.phase = "push_fail" THEN [u EXCEPT !.pc = "A_unlock"]
    ELSE IF r.phase = "push_leaf" THEN [u EXCEPT !.pc = "unmapped"]
    ELSE HartIdle

\* The page handed to memory::mmu::free_page at the call site.
PushArg(r) == IF r.phase = "push_after" THEN r.result.val ELSE r.page

\* Inside memory::mmu::allocate_page / free_page: the free-list operation
\* runs under the guard, the guard is dropped and the function returns.  A
\* panic inside the operation leaves the lock taken.
ListOp(h) ==
    /\ harts[h].pc = "F_op"
    /\ IF harts[h].phase \in {"pop_data", "pop_table"}
       THEN LET r == remove_free_page(Cur) IN
            /\ SetList(r.L)
            /\ pt' = pt
            /\ IF r.L.panic # NoPanic
               THEN /\ SetHart(h, HartPanic(harts[h]))
                    /\ UNCHANGED locked
               ELSE /\ SetHart(h, AfterPop(harts[h], r.ret))
                    /\ locked' = SpinLock_unlock(locked, FREE_PAGE_LOCK)
       ELSE LET S == free_page(CurS, PushArg(harts[h])) IN
            /\ SetS(S)
            /\ IF S.L.panic # NoPanic
               THEN /\ SetHart(h, HartPanic(harts[h]))
                    /\ UNCHANGED locked
               ELSE /\ SetHart(h, AfterPush(harts[h]))
                    /\ locked' = SpinLock_unlock(locked, FREE_PAGE_LOCK)
    /\ UNCHANGED <<leaves, call, expected, runUsed, misuse, root, ptcall,
                   virtioVars, pteVars, lateVars>>

\* LockGuard::new(&self.lock): one iteration of the spin loop.
AcquireSpace(h) ==
    /\ harts[h].pc = "A_lock"
    /\ LET r == SpinLock_lock(locked, harts[h].space) IN
        /\ locked' = r.locked
        /\ IF r.acquired
           THEN SetHart(h, [harts[h] EXCEPT !.pc = "pt",
                                            !.holds = @ \cup {harts[h].space}])
           ELSE UNCHANGED harts
    /\ UNCHANGED <<leaves, listVars, ptVars, virtioVars, pteVars, lateVars>>

\* look_up_page_entry_mut finds a table missing and creates it with
\* PageTableEntry::new_page_table_ptr, which calls allocate_page().
CreateTable(h) ==
    /\ harts[h].pc = "pt"
    /\ harts[h].op # "get_physical_address"
    /\ harts[h].created < MaxTables
    /\ SetHart(h, CallFree(harts[h], "pop_table"))
    /\ UNCHANGED <<locked, leaves, listVars, ptVars, virtioVars, pteVars, lateVars>>

\* What the call finds at vaddr: nothing it can use (map_page fails, or the
\* page is not mapped), a Manual device page, or an Automatic page.
Findings == {"none", "manual", "automatic"}

\* The rest of the page-table call.  allocate_page: map_page writes the leaf,
\* or fails (found # "none": vaddr is mapped or not aligned) and the popped
\* page is freed.  map_page and get_physical_address return.  unmap_page
\* (PageTable) computes its result and set_invalid frees an Automatic page.
FinishCall(h, found, p) ==
    /\ harts[h].pc = "pt"
    /\ found # "none" => harts[h].created = 0
    /\ IF found = "automatic" THEN p \in leaves[harts[h].space] ELSE p = NONE
    /\ LET r == harts[h] IN
       IF r.op = "allocate_page"
       THEN IF found # "none"
            THEN /\ SetHart(h, CallFree(r, "push_fail"))
                 /\ UNCHANGED leaves
            ELSE /\ SetHart(h, [r EXCEPT !.pc = "A_unlock", !.created = 0,
                                         !.page = NONE])
                 /\ leaves' = [leaves EXCEPT ![r.space] = @ \cup {r.page}]
       ELSE IF r.op \in {"map_page", "get_physical_address"}
       THEN /\ SetHart(h, [r EXCEPT !.pc = "A_unlock", !.created = 0])
            /\ UNCHANGED leaves
       ELSE IF found = "automatic"
       THEN /\ SetHart(h, CallFree([r EXCEPT !.result = None, !.page = p], "push_leaf"))
            /\ UNCHANGED leaves
       ELSE /\ SetHart(h, [r EXCEPT !.pc = "unmapped", !.created = 0,
                                    !.result = IF found = "manual"
                                               THEN Some(DevicePage) ELSE Some(0)])
            /\ UNCHANGED leaves
    /\ UNCHANGED <<locked, listVars, ptVars, virtioVars, pteVars, lateVars>>

\* set_invalid has zeroed the entry and PageTable::unmap_page has returned.
\* AddressSpace::unmap_page asserts that a page came back.
Unmapped(h) ==
    /\ harts[h].pc = "unmapped"
    /\ LET r == harts[h] IN
        /\ leaves' = IF r.result.some THEN leaves
                     ELSE [leaves EXCEPT ![r.space] = @ \ {r.page}]
        /\ SetHart(h, IF r.op = "unmap_page" /\ ~r.result.some THEN HartPanic(r)
                      ELSE [r EXCEPT !.pc = "A_unlock"])
    /\ UNCHANGED <<locked, listVars, ptVars, virtioVars, pteVars, lateVars>>

\* The guard of the address space is dropped.  AddressSpace::free_page then
\* frees the page unmap_page returned; every other call returns.
ReleaseSpace(h) ==
    /\ harts[h].pc = "A_unlock"
    /\ LET r == harts[h] IN
        /\ locked' = SpinLock_unlock(locked, r.space)
        /\ SetHart(h, IF r.op = "free_page" /\ r.result.some
                      THEN CallFree([r EXCEPT !.holds = @ \ {r.space}], "push_after")
                      ELSE HartIdle)
    /\ UNCHANGED <<leaves, listVars, ptVars, virtioVars, pteVars, lateVars>>

NextLocks ==
    \/ \E h \in Harts, a \in Spaces : StartAllocate(h, a)
    \/ \E h \in Harts, a \in Spaces : StartFree(h, a)
    \/ \E h \in Harts, a \in Spaces : StartMap(h, a)
    \/ \E h \in Harts, a \in Spaces : StartUnmap(h, a)
    \/ \E h \in Harts, a \in Spaces : StartTranslate(h, a)
    \/ \E h \in Harts : AcquireFree(h)
    \/ \E h \in Harts : ListOp(h)
    \/ \E h \in Harts : AcquireSpace(h)
    \/ \E h \in Harts : CreateTable(h)
    \/ \E h \in Harts, found \in Findings, p \in Pages \cup {NONE} :
          FinishCall(h, found, p)
    \/ \E h \in Harts : Unmapped(h)
    \/ \E h \in Harts : ReleaseSpace(h)

SpecLocks == InitLocks /\ [][NextLocks]_vars

\* ------------------------------------------------------------------------
\* Properties of the harts and the locks.
\* ------------------------------------------------------------------------

\* The hart spins in SpinLock::lock.
Waiting(h) == harts[h].pc \in {"F_lock", "A_lock"}

\* The lock the hart is about to take or spins on.
WaitLock(h) == IF harts[h].pc = "F_lock" THEN FREE_PAGE_LOCK ELSE harts[h].space

\* Harts that can never take another step: the largest set in which every
\* hart has panicked or spins on a lock whose guard a hart of the set holds.
RECURSIVE Stuck(_, _)
Stuck(set, fuel) ==
    LET keep == {h \in set :
                    \/ harts[h].pc = "panicked"
                    \/ /\ Waiting(h)
                       /\ \E g \in set \ {h} : WaitLock(h) \in harts[g].holds}
    IN IF fuel = 0 \/ keep = set THEN keep ELSE Stuck(keep, fuel - 1)

\* A hart spins on a lock that will never be released.
DeadlockState == \E h \in Stuck(Harts, NumHarts) : Waiting(h)

\* No hart acquires or waits for an address-space lock while it holds the
\* free-page lock.
C19_LockOrder ==
    \A h \in Harts : harts[h].pc = "A_lock" => FREE_PAGE_LOCK \notin harts[h].holds

\* C19: with harts concurrently calling allocate_page, free_page, map_page,
\* unmap_page and translate on any address spaces, no hart acquires or waits
\* for an address-space lock while holding the free-page lock, and no
\* deadlock state is reachable.
C19_NoInversionNoDeadlock == C19_LockOrder /\ ~DeadlockState

\* The hart is inside a FreePageList operation.
InFreePageList(h) == harts[h].pc = "F_op"

\* The hart is reading or writing the page table of address space a: it is
\* in the part of an AddressSpace method that follows LockGuard::new.
InPageTable(h, a) ==
    /\ harts[h].space = a
    /\ \/ harts[h].pc \in {"pt", "unmapped", "A_unlock"}
       \/ harts[h].pc \in {"F_lock", "F_op"} /\
          harts[h].phase \in {"pop_table", "push_fail", "push_leaf"}

\* C20: at most one hart at a time is inside a FreePageList operation and at
\* most one hart at a time reads or writes the page table of a given
\* address space; each such access happens between a successful acquire and
\* the matching release of the guarding spinlock, and the lock is released
\* on every return path.
C20_MutualExclusion ==
    /\ \A h, g \in Harts : (h # g /\ InFreePageList(h)) => ~InFreePageList(g)
    /\ \A a \in Spaces : \A h, g \in Harts :
          (h # g /\ InPageTable(h, a)) => ~InPageTable(g, a)
    /\ \A h \in Harts :
          /\ InFreePageList(h) =>
                (FREE_PAGE_LOCK \in harts[h].holds /\ locked[FREE_PAGE_LOCK])
          /\ \A a \in Spaces :
                InPageTable(h, a) => (a \in harts[h].holds /\ locked[a])
          /\ harts[h].pc = "idle" => harts[h].holds = {}
    /\ \A l \in Locks : locked[l] => \E h \in Harts : l \in harts[h].holds

\* C20 witness: a hart is inside a FreePageList operation that it reached
\* from inside a page-table access, while another hart spins on the
\* free-page lock, after an allocate_page on that address space returned.
C20_Witness ==
    \E h, g \in Harts :
        /\ h # g
        /\ InFreePageList(h)
        /\ InPageTable(h, harts[h].space)
        /\ harts[g].pc = "F_lock"
        /\ leaves[harts[h].space] # {}

\* ------------------------------------------------------------------------
\* Part 6: VirtualPagePtr and the layout AddressSpace::new installs.  The
\* page table of a constructed space is kept as the function from the number
\* of a mapped virtual page to the leaf entry map_page wrote for it; the
\* tables between the root and the leaves are not kept.
\* ------------------------------------------------------------------------

\* PageTable::map_page on such a function: [table, ret].
layout_map_page(table, virtual_address, physical_address, permissions, page_management) ==
    IF ~usize_le(virtual_address, HIGHEST_VIRTUAL_ADDRESS)
    THEN [table |-> table, ret |-> Panicked]
    ELSE IF virtual_address.off # 0 THEN [table |-> table, ret |-> Err(ErrVaUnaligned)]
    ELSE IF physical_address.off # 0 \/ physical_address = Null
    THEN [table |-> table, ret |-> Err(ErrPaInvalid)]
    ELSE IF virtual_address.page \in DOMAIN table
    THEN [table |-> table, ret |-> Err(ErrAlreadyMapped)]
    ELSE [table |-> [v \in (DOMAIN table) \cup {virtual_address.page} |->
                        IF v = virtual_address.page
                        THEN [map_page_entry(0, permissions, page_management)
                                 EXCEPT !.ppn = physical_address.page]
                        ELSE table[v]],
          ret |-> Ok(None)]

\* PageTable::get_physical_address (translate) on such a function.
layout_get_physical_address(table, virtual_address) ==
    IF ~usize_le(virtual_address, HIGHEST_VIRTUAL_ADDRESS) THEN PtrPanic
    ELSE IF virtual_address.page \notin DOMAIN table THEN PtrErr(ErrVpn2Invalid)
    ELSE PtrOk(Address(table[virtual_address.page].ppn, virtual_address.off))

\* AddressSpace::new::add_range from page_address on: [table, panic].  The
\* expect on the result of map_page panics.
RECURSIVE add_range(_, _, _, _, _)
add_range(table, page_address, end_address, permissions, virtualize_address) ==
    IF ~usize_lt(page_address, end_address) THEN [table |-> table, panic |-> FALSE]
    ELSE LET virtual_address ==
                 IF virtualize_address
                 THEN usize_add(mmu_VIRTUAL_BASE_OFFSET, page_address)
                 ELSE page_address
             m == layout_map_page(table, virtual_address, page_address,
                                  permissions, "Manual")
         IN IF m.ret.kind # "Ok" THEN [table |-> m.table, panic |-> TRUE]
            ELSE add_range(m.table, usize_add(page_address, Address(1, 0)),
                           end_address, permissions, virtualize_address)

\* The permissions AddressSpace::new gives a kernel section.
SectionPermissions(section) ==
    IF section = "text" THEN Permissions(TRUE, FALSE, TRUE, FALSE, TRUE)
    ELSE IF section = "rodata" THEN Permissions(TRUE, FALSE, FALSE, FALSE, TRUE)
    ELSE Permissions(TRUE, TRUE, FALSE, FALSE, TRUE)

\* The add_range calls of AddressSpace::new in the order it makes them:
\* flash, MMIO, the kernel's sections, then RAM in the linear window.
RangesToMap(system_memory, kernel_memory) ==
    [i \in 1..Len(system_memory.flash_devices) |->
        [start |-> system_memory.flash_devices[i].base_address,
         size |-> system_memory.flash_devices[i].range,
         permissions |-> Permissions(TRUE, FALSE, FALSE, FALSE, TRUE),
         virtualize_address |-> FALSE]]
    \o [i \in 1..Len(system_memory.mmio_regions) |->
        [start |-> system_memory.mmio_regions[i].base_address,
         size |-> system_memory.mmio_regions[i].range,
         permissions |-> Permissions(TRUE, TRUE, FALSE, FALSE, TRUE),
         virtualize_address |-> FALSE]]
    \o [i \in 1..Len(KernelSections) |->
        [start |-> kernel_memory[i].start,
         size |-> kernel_memory[i].size,
         permissions |-> SectionPermissions(KernelSections[i]),
         virtualize_address |-> FALSE]]
    \o [i \in 1..Len(system_memory.memory_devices) |->
        [start |-> system_memory.memory_devices[i].base_address,
         size |-> system_memory.memory_devices[i].range,
         permissions |-> Permissions(TRUE, TRUE, FALSE, FALSE, TRUE),
         virtualize_address |-> TRUE]]

RECURSIVE add_ranges(_, _, _)
add_ranges(table, ranges, i) ==
    IF i > Len(ranges) THEN [table |-> table, panic |-> FALSE]
    ELSE LET r == add_range(table, ranges[i].start,
                            usize_add(ranges[i].start, ranges[i].size),
                            ranges[i].permissions, ranges[i].virtualize_address)
         IN IF r.panic THEN r ELSE add_ranges(r.table, ranges, i + 1)

\* The page allocate_page hands to PageBox::new: the lowest RAM page above
\* the kernel image.
FirstFreePage(system_memory) ==
    usize_add(system_memory.memory_devices[1].base_address,
              Address(Len(KernelSections), 0))

\* AddressSpace::new: [table, panic].  PageBox::new expects a pointer to the
\* page of the root table from new_from_address.
AddressSpace_new(system_memory, highest, base, mode) ==
    IF new_from_address(FirstFreePage(system_memory), highest, base, mode).kind # "Ok"
    THEN [table |-> <<>>, panic |-> TRUE]
    ELSE add_ranges(<<>>, RangesToMap(system_memory,
                                      KernelMemoryLayout_new(system_memory)), 1)

\* The page addresses of a region.
PagesOf(device) ==
    {usize_add(device.base_address, Address(k, 0)) : k \in 0..(device.range.page - 1)}

\* The pages of RAM of an inventory.
RamPagesOf(system_memory) ==
    UNION {PagesOf(system_memory.memory_devices[i]) :
              i \in 1..Len(system_memory.memory_devices)}

\* The physical addresses handed to from_physical: null, an address inside a
\* page, the MMIO page below RAM, and of every RAM region its first page, its
\* last page, the page at its end and the page after that.
PhysInputs ==
    {Null, usize_add(SYSTEM_MEMORY.memory_devices[1].base_address, Address(0, 291)),
     SYSTEM_MEMORY.mmio_regions[1].base_address}
    \cup UNION {{d.base_address,
                 usize_add(d.base_address, usize_sub(d.range, Address(1, 0))),
                 usize_add(d.base_address, d.range),
                 usize_add(d.base_address, usize_add(d.range, Address(1, 0)))} :
                d \in {SYSTEM_MEMORY.memory_devices[i] :
                          i \in 1..Len(SYSTEM_MEMORY.memory_devices)}}

\* The virtual addresses handed to from_virtual: null, an address inside a
\* page, the top page of the address space, the page above it, a RAM page
\* taken as it is, and around the window the pages below it, at its start, at
\* the first and last RAM page and at its end.
VirtInputs ==
    {Null, Address(134217727, 8), Address(134217727, 0), Address(134217728, 0),
     SYSTEM_MEMORY.memory_devices[1].base_address}
    \cup (IF VIRTUAL_BASE_OFFSET = Null THEN {}
          ELSE {usize_sub(VIRTUAL_BASE_OFFSET, Address(1, 0)),
                VIRTUAL_BASE_OFFSET,
                usize_add(VIRTUAL_BASE_OFFSET, SYSTEM_MEMORY.memory_devices[1].base_address),
                usize_add(VIRTUAL_BASE_OFFSET,
                          usize_sub(HIGHEST_PHYSICAL_ADDRESS, Address(1, 0))),
                usize_add(VIRTUAL_BASE_OFFSET, HIGHEST_PHYSICAL_ADDRESS)})

\* The kernel has been started on a machine; init_memory_manager has stored
\* its inventory.
InitPtr ==
    /\ first_page = NONE
    /\ last_page = NONE
    /\ mem = [p \in Pages |-> ClearedPage]
    /\ panic = NoPanic
    /\ call = NoCall
    /\ expected = {}
    /\ runUsed = FALSE
    /\ misuse = FALSE
    /\ root = NONE
    /\ pt = [p \in Pages |-> EmptyTable]
    /\ ptcall = NoPtCall
    /\ InitVirtioVars
    /\ InitPteVars
    /\ InitLockVars
    /\ SYSTEM_MEMORY \in Inventories
    /\ VIRTUAL_BASE_OFFSET = Null
    /\ HIGHEST_PHYSICAL_ADDRESS = Null
    /\ KERNEL_IN_VIRTUAL_MODE = FALSE
    /\ vpcall = NoVpCall
    /\ vptr = NoPtr
    /\ spaces = <<>>
    /\ InitBootVars
    /\ InitMmioVars
    /\ InitRingVars

VpCall(op, arg, ret) ==
    vpcall' = [op |-> op, arg |-> arg, ret |-> ret, mode |-> KERNEL_IN_VIRTUAL_MODE]

\* init_virtual_base_offset(); a second call fails its debug_assert.
InitVirtualBaseOffset ==
    /\ vpcall.ret.kind # "Panic"
    /\ IF VIRTUAL_BASE_OFFSET # Null
       THEN /\ VpCall("init_virtual_base_offset", Null, PtrPanic)
            /\ UNCHANGED <<VIRTUAL_BASE_OFFSET, HIGHEST_PHYSICAL_ADDRESS>>
       ELSE /\ VpCall("init_virtual_base_offset", Null, PtrOk(Null))
            /\ VIRTUAL_BASE_OFFSET' =
                   init_virtual_base_offset(SYSTEM_MEMORY).VIRTUAL_BASE_OFFSET
            /\ HIGHEST_PHYSICAL_ADDRESS' =
                   init_virtual_base_offset(SYSTEM_MEMORY).HIGHEST_PHYSICAL_ADDRESS
    /\ UNCHANGED <<SYSTEM_MEMORY, KERNEL_IN_VIRTUAL_MODE, vptr, spaces, listVars, ptVars,
                   virtioVars, pteVars, lockVars, bootVars, mmioVars,
                   ringVars>>

\* set_kernel_in_virtual_mode()
SetKernelInVirtualMode ==
    /\ vpcall.ret.kind # "Panic"
    /\ KERNEL_IN_VIRTUAL_MODE' = TRUE
    /\ VpCall("set_kernel_in_virtual_mode", Null, PtrOk(Null))
    /\ UNCHANGED <<SYSTEM_MEMORY, VIRTUAL_BASE_OFFSET, HIGHEST_PHYSICAL_ADDRESS, vptr,
                   spaces, listVars, ptVars, virtioVars, pteVars, lockVars, bootVars,
                   mmioVars, ringVars>>

\* The pointer a constructor returned, kept when it is Ok.
Built(op, address, ret) ==
    vptr' = IF ret.kind = "Ok"
            THEN [built |-> op, from |-> address, raw |-> ret.raw]
            ELSE vptr

\* VirtualPagePtr::from_physical(address)
FromPhysical(address) ==
    /\ vpcall.ret.kind # "Panic"
    /\ LET ret == from_physical(address, HIGHEST_PHYSICAL_ADDRESS, VIRTUAL_BASE_OFFSET) IN
        /\ VpCall("from_physical", address, ret)
        /\ Built("from_physical", address, ret)
    /\ UNCHANGED <<SYSTEM_MEMORY, VIRTUAL_BASE_OFFSET, HIGHEST_PHYSICAL_ADDRESS,
                   KERNEL_IN_VIRTUAL_MODE, spaces, listVars, ptVars, virtioVars, pteVars,
                   lockVars, bootVars, mmioVars,
                   ringVars>>

\* VirtualPagePtr::from_virtual(address)
FromVirtual(address) ==
    /\ vpcall.ret.kind # "Panic"
    /\ LET ret == from_virtual(address, VIRTUAL_BASE_OFFSET) IN
        /\ VpCall("from_virtual", address, ret)
        /\ Built("from_virtual", address, ret)
    /\ UNCHANGED <<SYSTEM_MEMORY, VIRTUAL_BASE_OFFSET, HIGHEST_PHYSICAL_ADDRESS,
                   KERNEL_IN_VIRTUAL_MODE, spaces, listVars, ptVars, virtioVars, pteVars,
                   lockVars, bootVars, mmioVars,
                   ringVars>>

\* as_usize() on the pointer built last.
AsUsize ==
    /\ vpcall.ret.kind # "Panic"
    /\ vptr.built # "none"
    /\ VpCall("as_usize", vptr.raw,
              as_usize(vptr.raw, VIRTUAL_BASE_OFFSET, KERNEL_IN_VIRTUAL_MODE))
    /\ UNCHANGED <<SYSTEM_MEMORY, VIRTUAL_BASE_OFFSET, HIGHEST_PHYSICAL_ADDRESS,
                   KERNEL_IN_VIRTUAL_MODE, vptr, spaces, listVars, ptVars, virtioVars,
                   pteVars, lockVars, bootVars, mmioVars,
                   ringVars>>

\* AddressSpace::new()
ConstructAddressSpace ==
    /\ vpcall.ret.kind # "Panic"
    /\ Len(spaces) < NumSpaces
    /\ LET s == AddressSpace_new(SYSTEM_MEMORY, HIGHEST_PHYSICAL_ADDRESS,
                                 VIRTUAL_BASE_OFFSET, KERNEL_IN_VIRTUAL_MODE) IN
        /\ VpCall("AddressSpace::new", Null, IF s.panic THEN PtrPanic ELSE PtrOk(Null))
        /\ spaces' = IF s.panic THEN spaces ELSE Append(spaces, s.table)
    /\ UNCHANGED <<SYSTEM_MEMORY, VIRTUAL_BASE_OFFSET, HIGHEST_PHYSICAL_ADDRESS,
                   KERNEL_IN_VIRTUAL_MODE, vptr, listVars, ptVars, virtioVars, pteVars,
                   lockVars, bootVars, mmioVars,
                   ringVars>>

NextPtr ==
    \/ InitVirtualBaseOffset
    \/ SetKernelInVirtualMode
    \/ \E address \in PhysInputs : FromPhysical(address)
    \/ \E address \in VirtInputs : FromVirtual(address)
    \/ AsUsize
    \/ ConstructAddressSpace

SpecPtr == InitPtr /\ [][NextPtr]_vars

\* ------------------------------------------------------------------------
\* Properties of Part 6.
\* ------------------------------------------------------------------------

\* The pages AddressSpace::new is to map at their own address: flash, MMIO
\* and the kernel's sections.
IdentityPages ==
    UNION {PagesOf(SYSTEM_MEMORY.flash_devices[i]) :
              i \in 1..Len(SYSTEM_MEMORY.flash_devices)}
    \cup UNION {PagesOf(SYSTEM_MEMORY.mmio_regions[i]) :
                   i \in 1..Len(SYSTEM_MEMORY.mmio_regions)}
    \cup {KernelMemoryLayout_new(SYSTEM_MEMORY)[i].start : i \in 1..Len(KernelSections)}

\* C21: every constructed address space translates each flash, MMIO and
\* kernel-section page to itself and VBASE + P to P for every RAM page P, has
\* only kernel-only leaves (U = 0), and equals every other space constructed
\* from the same inventory.
C21_SameLayout ==
    \A i \in 1..Len(spaces) :
        /\ \A P \in IdentityPages :
              layout_get_physical_address(spaces[i], P) = PtrOk(P)
        /\ \A P \in RamPagesOf(SYSTEM_MEMORY) :
              layout_get_physical_address(spaces[i], usize_add(VIRTUAL_BASE_OFFSET, P))
                  = PtrOk(P)
        /\ \A v \in DOMAIN spaces[i] : ~spaces[i][v].u
        /\ \A j \in 1..Len(spaces) : spaces[i] = spaces[j]

\* The highest end of a RAM region of the inventory.
HighestRamEnd ==
    LET ends == {usize_add(SYSTEM_MEMORY.memory_devices[i].base_address,
                           SYSTEM_MEMORY.memory_devices[i].range) :
                    i \in 1..Len(SYSTEM_MEMORY.memory_devices)}
    IN CHOOSE e \in ends : \A f \in ends : usize_le(f, e)

\* C22: VBASE, once computed, is align_down(highest virtual address - highest
\* RAM end, PAGE_SIZE), and every constructed address space maps every RAM
\* page P at the virtual address from_physical(P) produces.
C22_SingleVBase ==
    /\ VIRTUAL_BASE_OFFSET # Null =>
          VIRTUAL_BASE_OFFSET =
              align_down(usize_sub(HIGHEST_VIRTUAL_ADDRESS, HighestRamEnd), PAGE_SIZE)
    /\ \A i \in 1..Len(spaces) : \A P \in RamPagesOf(SYSTEM_MEMORY) :
          LET r == from_physical(P, HIGHEST_PHYSICAL_ADDRESS, VIRTUAL_BASE_OFFSET) IN
          /\ r.kind = "Ok"
          /\ r.raw.page \in DOMAIN spaces[i]
          /\ spaces[i][r.raw.page].ppn = P.page

\* The address lies in a RAM region of the inventory.
InRam(address) ==
    \E i \in 1..Len(SYSTEM_MEMORY.memory_devices) :
        LET d == SYSTEM_MEMORY.memory_devices[i] IN
        /\ usize_le(d.base_address, address)
        /\ usize_lt(address, usize_add(d.base_address, d.range))

\* C23: once the inventory has been scanned, from_physical(p) returns an
\* error when p is 0, is not a multiple of 4096 or lies in no RAM region, and
\* otherwise the pointer VBASE + p.
C23_FromPhysical ==
    (vpcall.op = "from_physical" /\ HIGHEST_PHYSICAL_ADDRESS # Null) =>
        IF vpcall.arg = Null \/ vpcall.arg.off # 0 \/ ~InRam(vpcall.arg)
        THEN vpcall.ret.kind = "Err"
        ELSE vpcall.ret = PtrOk(usize_add(VIRTUAL_BASE_OFFSET, vpcall.arg))

\* C24: from_virtual(v) returns an error when v is 0, is not a multiple of
\* 4096 or lies outside [VBASE, VBASE + RAM_SPAN), RAM_SPAN being the highest
\* RAM end.
C24_FromVirtual ==
    (vpcall.op = "from_virtual" /\ VIRTUAL_BASE_OFFSET # Null) =>
        ((\/ vpcall.arg = Null
          \/ vpcall.arg.off # 0
          \/ usize_lt(vpcall.arg, VIRTUAL_BASE_OFFSET)
          \/ usize_le(usize_add(VIRTUAL_BASE_OFFSET, HIGHEST_PHYSICAL_ADDRESS),
                      vpcall.arg))
            => vpcall.ret.kind = "Err")

\* C25: as_usize() on a pointer built by from_physical(p) returns p in
\* physical mode and VBASE + p in virtual mode, and KERNEL_IN_VIRTUAL_MODE,
\* once true, stays true.
C25_AsUsizeByMode ==
    /\ []((vpcall.op = "as_usize" /\ vptr.built = "from_physical") =>
             vpcall.ret = PtrOk(IF vpcall.mode
                                THEN usize_add(VIRTUAL_BASE_OFFSET, vptr.from)
                                ELSE vptr.from))
    /\ [][KERNEL_IN_VIRTUAL_MODE => KERNEL_IN_VIRTUAL_MODE']_vars

\* as_usize() has returned in virtual mode for a pointer from_physical built.
C25_Witness ==
    /\ vpcall.op = "as_usize"
    /\ vptr.built = "from_physical"
    /\ vpcall.mode
    /\ vpcall.ret.kind = "Ok"

\* ------------------------------------------------------------------------
\* Part 7: the harts in main (xtra-kernel/src/main.rs).  Every hart enters
\* main with its own core_index; a hart's position is the statement it
\* executes next, and executed is the set of statements it has completed.
\* A hart that panics spins in the panic handler for ever; the other harts
\* keep running.
\* ------------------------------------------------------------------------

\* The one-time initialisation of the else branch of main, in program order.
InitStatements ==
    <<"DeviceTree::new", "init_printing", "print_cpu_info",
      "KernelMemoryLayout::new", "SystemMemory::new", "init_memory_manager">>

\* The statements of main from the first statement of the else branch to
\* Scheduler::run, which never returns.
MainStatements ==
    InitStatements \o <<"convert_to_kernel_address_space", "set_system_booted",
                        "Scheduler::new", "Scheduler::run">>

\* The statement after pc on the path of hart core_index: set_system_booted
\* is in the else branch only.
Successor(core_index, pc) ==
    IF core_index # 0 /\ pc = "convert_to_kernel_address_space"
    THEN "Scheduler::new"
    ELSE MainStatements[(CHOOSE i \in 1..Len(MainStatements) :
                            MainStatements[i] = pc) + 1]

\* A system_booted that reports a finished boot whatever the flag holds.
system_booted_blind(flag) == TRUE

\* system_booted: the Acquire load of SYSTEM_BOOTED.
system_booted(flag) == flag

\* set_system_booted: the Release store of true.
set_system_booted(flag) == TRUE

\* convert_to_kernel_address_space: whether the call panics.
convert_to_kernel_address_space == [panic |-> TRUE]

\* init_memory_manager: init_free_page_list builds a FreeMemoryPagePtr of the
\* first free page (FreeMemoryPage::new panics when that fails), the
\* inventory is stored, and AddressSpace::new builds the kernel's space.
init_memory_manager(system_memory, stored, highest, base, mode) ==
    IF new_from_address(FirstFreePage(system_memory), highest, base, mode).kind # "Ok"
    THEN [panic |-> TRUE, SYSTEM_MEMORY |-> stored]
    ELSE [panic |-> AddressSpace_new(system_memory, highest, base, mode).panic,
          SYSTEM_MEMORY |-> system_memory]

\* The statement at core.pc executed by hart core_index: the hart's new
\* state and the statics after it.  device_memory is the inventory the device
\* tree describes.
main_step(core_index, core, device_memory, flag, stored, highest, base, mode) ==
    LET done == [core EXCEPT !.executed = @ \cup {core.pc},
                             !.pc = Successor(core_index, core.pc)]
        panicked == [core EXCEPT !.pc = "panicked"]
    IN  CASE core.pc = "SystemMemory::new" ->
                [core |-> [done EXCEPT !.memory_info = device_memory],
                 SYSTEM_BOOTED |-> flag, SYSTEM_MEMORY |-> stored]
          [] core.pc = "init_memory_manager" ->
                Bind(init_memory_manager(core.memory_info, stored, highest, base, mode),
                     LAMBDA r : [core |-> IF r.panic THEN panicked ELSE done,
                                 SYSTEM_BOOTED |-> flag,
                                 SYSTEM_MEMORY |-> r.SYSTEM_MEMORY])
          [] core.pc = "convert_to_kernel_address_space" ->
                [core |-> IF convert_to_kernel_address_space.panic
                          THEN panicked ELSE done,
                 SYSTEM_BOOTED |-> flag, SYSTEM_MEMORY |-> stored]
          [] core.pc = "set_system_booted" ->
                [core |-> done, SYSTEM_BOOTED |-> set_system_booted(flag),
                 SYSTEM_MEMORY |-> stored]
          [] OTHER ->
                [core |-> done, SYSTEM_BOOTED |-> flag, SYSTEM_MEMORY |-> stored]

\* The two asserts at the entry of main and the test of core_index.
Enter(c) ==
    /\ cores[c].pc = "main"
    /\ cores' = [cores EXCEPT ![c].pc =
                    IF ~(c < MAX_CORES) THEN "panicked"
                    ELSE IF c # 0 THEN "while !system_booted()"
                    ELSE InitStatements[1]]
    /\ UNCHANGED <<SYSTEM_BOOTED, listVars, ptVars, virtioVars, pteVars, lockVars,
                   ptrVars, mmioVars,
                   ringVars>>

\* One evaluation of the condition of the boot spin loop.
Spin(c) ==
    /\ cores[c].pc = "while !system_booted()"
    /\ cores' = IF system_booted(SYSTEM_BOOTED)
                THEN [cores EXCEPT ![c].pc = "convert_to_kernel_address_space",
                                   ![c].executed = @ \cup {"while !system_booted()"}]
                ELSE [cores EXCEPT ![c].polls = IF @ < PollLimit THEN @ + 1 ELSE @]
    /\ UNCHANGED <<SYSTEM_BOOTED, listVars, ptVars, virtioVars, pteVars, lockVars,
                   ptrVars, mmioVars,
                   ringVars>>

\* A hart past the entry and the spin loop executes its next statement.
Step(c) ==
    /\ \E i \in 1..(Len(MainStatements) - 1) : cores[c].pc = MainStatements[i]
    /\ \E device_memory \in Inventories :
         Bind(main_step(c, cores[c], device_memory, SYSTEM_BOOTED, SYSTEM_MEMORY,
                        HIGHEST_PHYSICAL_ADDRESS, VIRTUAL_BASE_OFFSET,
                        KERNEL_IN_VIRTUAL_MODE),
              LAMBDA r : /\ cores' = [cores EXCEPT ![c] = r.core]
                         /\ SYSTEM_BOOTED' = r.SYSTEM_BOOTED
                         /\ SYSTEM_MEMORY' = r.SYSTEM_MEMORY)
    /\ UNCHANGED <<VIRTUAL_BASE_OFFSET, HIGHEST_PHYSICAL_ADDRESS,
                   KERNEL_IN_VIRTUAL_MODE, vpcall, vptr, spaces, listVars, ptVars,
                   virtioVars, pteVars, lockVars, mmioVars,
                   ringVars>>

\* The kernel as the boot loader enters it: the statics of every module at
\* their initial values, every hart at the entry of main.
InitBoot ==
    /\ first_page = NONE
    /\ last_page = NONE
    /\ mem = [p \in Pages |-> ClearedPage]
    /\ panic = NoPanic
    /\ call = NoCall
    /\ expected = {}
    /\ runUsed = FALSE
    /\ misuse = FALSE
    /\ root = NONE
    /\ pt = [p \in Pages |-> EmptyTable]
    /\ ptcall = NoPtCall
    /\ InitVirtioVars
    /\ InitPteVars
    /\ InitLockVars
    /\ InitLateVars

NextBoot ==
    \/ \E c \in Cores : Enter(c)
    \/ \E c \in Cores : Spin(c)
    \/ \E c \in Cores : Step(c)

SpecBoot == InitBoot /\ [][NextBoot]_vars

\* Every hart keeps executing: no hart is starved of its next statement.
SpecBootFair ==
    /\ SpecBoot
    /\ \A c \in Cores : WF_vars(Enter(c)) /\ WF_vars(Spin(c)) /\ WF_vars(Step(c))

\* C26: only hart 0 executes a statement of the one-time initialisation; a
\* hart other than hart 0 that has left its boot spin loop left it after
\* hart 0 had completed the initialisation and stored the boot-complete flag;
\* and the flag, once true, stays true.
C26_BootOrder ==
    /\ [](\A c \in Cores \ {0} :
            /\ cores[c].executed \cap {InitStatements[i] : i \in 1..Len(InitStatements)} = {}
            /\ ~(\E i \in 1..Len(InitStatements) : cores[c].pc = InitStatements[i])
            /\ "while !system_booted()" \in cores[c].executed =>
                  /\ SYSTEM_BOOTED
                  /\ {InitStatements[i] : i \in 1..Len(InitStatements)}
                        \subseteq cores[0].executed)
    /\ [][SYSTEM_BOOTED => SYSTEM_BOOTED']_vars

\* Hart 0 is inside the initialisation, has completed statements of it, and
\* another hart has evaluated the condition of its spin loop and spins on.
C26_Witness ==
    /\ cores[0].executed # {}
    /\ \E c \in Cores \ {0} :
          /\ cores[c].pc = "while !system_booted()"
          /\ cores[c].polls > 0

\* C27: under fair execution of all harts hart 0 eventually sets the
\* boot-complete flag and every hart eventually runs its scheduler.
C27_BootCompletes ==
    /\ <>SYSTEM_BOOTED
    /\ \A c \in Cores : <>(cores[c].pc = "Scheduler::run")

\* ------------------------------------------------------------------------
\* Part 8: VirtIoBlockDevice::initialize (xtra-bootloader/src/virtio.rs).
\* A u32 or u64 of flag bits (Status, the feature words) is carried as the
\* set of the positions of its set bits: | is \cup, & is \cap, x << 32 adds
\* 32 to every position.  The other registers hold numbers.  A bus state m
\* is [regs, writes]: the registers of the device and the MMIO writes made
\* so far, each with the register's content before and after it.
\* ------------------------------------------------------------------------

VIRTIO_MMIO_MAGIC == 1953655158

VIRTIO_BLOCK_DEVICE_ID == 2

\* Status bits 0x01, 0x02, 0x04, 0x08, 0x80.
VIRTIO_CONFIG_S_ACKNOWLEDGE == {0}

VIRTIO_CONFIG_S_DRIVER == {1}

VIRTIO_CONFIG_S_DRIVER_OK == {2}

VIRTIO_CONFIG_S_FEATURES_OK == {3}

VIRTIO_CONFIG_S_FAILED == {7}

VIRTIO_BLK_F_RO == 5

VIRTIO_BLK_F_SCSI == 7

VIRTIO_BLK_F_CONFIG_WCE == 11

VIRTIO_BLK_F_MQ == 12

VIRTIO_F_ANY_LAYOUT == 27

VIRTIO_RING_F_INDIRECT_DESC == 28

VIRTIO_RING_F_EVENT_IDX == 29

VIRTQ_AVAIL_F_NO_INTERRUPT == 1

VIRTQ_USED_F_NO_NOTIFY == 1

\* (word as u64) << 32
shl_32(word) == {b + 32 : b \in word}

\* value >> 32
shr_32(value) == {b - 32 : b \in {x \in value : x >= 32}}

\* value & 0xFFFF_FFFF
low_32(value) == {b \in value : b < 32}

\* features &= !(1 << bit)
clear_bit(features, bit) == features \ {bit}

\* The addresses of the statics DESCRIPTORS, AVAILABLE_RING and USED, each
\* aligned to 4096, in the RAM the boot loader is linked into.
RingAddress ==
    [DESCRIPTORS |-> Address(524304, 0), AVAILABLE_RING |-> Address(524305, 0),
     USED |-> Address(524306, 0)]

\* (address & 0xFFFF_FFFF) as u32, the 32-bit value as page and offset
address_low(address) == Address(address.page % 1048576, address.off)

\* (address >> 32) as u32
address_high(address) == address.page \div 1048576

\* The feature sets a device offers: none; VERSION_1 alone; bits the driver
\* refuses next to bits it keeps, in both halves.
OfferedFeatures ==
    {{}, {32}, {5, 9, 12, 28, 29, 32}, {6, 7, 11, 27, 30, 32, 35, 63}}

\* The devices initialize is called on.  offered, accepts, ready_holds and
\* queue_num_max are fixed properties of a device: the features it offers,
\* whether it accepts the subset the driver writes, whether QueueReady keeps
\* the value written, and the size of queue 0.
Devices ==
    {[magic |-> VIRTIO_MMIO_MAGIC, version |-> 2, device_id |-> d[1],
      offered |-> o, accepts |-> a[1], ready_holds |-> a[2],
      queue_num_max |-> d[2], interrupt_status |-> d[3],
      device_features_select |-> 0, driver_features_select |-> 0,
      driver_features |-> {}, status |-> s[1], queue_select |-> 0,
      queue_num |-> 0, queue_ready |-> s[2],
      queue_desc_low |-> Null, queue_desc_high |-> 0, queue_avail_low |-> Null,
      queue_avail_high |-> 0, queue_used_low |-> Null, queue_used_high |-> 0] :
        d \in {1, VIRTIO_BLOCK_DEVICE_ID} \X {0, 4, QUEUE_SIZE} \X {0, 1},
        o \in OfferedFeatures,
        a \in BOOLEAN \X BOOLEAN,
        s \in {<<{}, 0>>, <<{0, 1, 2, 3}, 1>>}}

\* The value the device returns for a read of a register.
DeviceRead(r, register) ==
    CASE register = "device_features" ->
            IF r.device_features_select \in {0, 1}
            THEN {b - 32 * r.device_features_select :
                     b \in {x \in r.offered :
                               /\ x >= 32 * r.device_features_select
                               /\ x < 32 * r.device_features_select + 32}}
            ELSE {}
      [] register = "queue_num_max" ->
            IF r.queue_select = 0 THEN r.queue_num_max ELSE 0
      [] OTHER -> r[register]

\* The registers after the device has taken a write.  A write of 0 to Status
\* resets the device; a write that sets FEATURES_OK is taken without that
\* bit by a device that does not accept the driver's features.
DeviceWrite(r, register, value) ==
    CASE register = "status" ->
            IF value = {}
            THEN [r EXCEPT !.status = {}, !.driver_features = {}, !.queue_ready = 0,
                           !.queue_num = 0, !.queue_select = 0,
                           !.device_features_select = 0, !.driver_features_select = 0,
                           !.queue_desc_low = Null, !.queue_desc_high = 0,
                           !.queue_avail_low = Null, !.queue_avail_high = 0,
                           !.queue_used_low = Null, !.queue_used_high = 0]
            ELSE IF /\ VIRTIO_CONFIG_S_FEATURES_OK \subseteq value
                    /\ ~(VIRTIO_CONFIG_S_FEATURES_OK \subseteq r.status)
                    /\ ~(r.accepts /\ r.driver_features \subseteq r.offered)
            THEN [r EXCEPT !.status = value \ VIRTIO_CONFIG_S_FEATURES_OK]
            ELSE [r EXCEPT !.status = value]
      [] register = "driver_features" ->
            IF r.driver_features_select \in {0, 1}
            THEN [r EXCEPT !.driver_features =
                     {b \in @ : \/ b < 32 * r.driver_features_select
                                \/ b >= 32 * r.driver_features_select + 32}
                     \cup {b + 32 * r.driver_features_select : b \in value}]
            ELSE r
      [] register = "queue_ready" ->
            [r EXCEPT !.queue_ready = IF r.ready_holds THEN value ELSE 0]
      [] register = "interrupt_ack" ->
            [r EXCEPT !.interrupt_status = IF value = @ THEN 0 ELSE @]
      [] OTHER -> [r EXCEPT ![register] = value]

\* The register a write changes, as the driver can read it back.
Shown(register) ==
    IF register = "interrupt_ack" THEN "interrupt_status" ELSE register

\* MmioRegister::read
read(m, register) == DeviceRead(m.regs, register)

\* MmioRegister::write
write(m, register, value) ==
    Bind(DeviceWrite(m.regs, register, value),
         LAMBDA r : [regs |-> r,
                     writes |-> Append(m.writes,
                                   [register |-> register, value |-> value,
                                    was |-> DeviceRead(m.regs, Shown(register)),
                                    now |-> DeviceRead(r, Shown(register))])])

\* MmioDevice::device_features_partial: the bus after the select write and
\* the word read.
device_features_partial(m, select) ==
    Bind(write(m, "device_features_select", select),
         LAMBDA n : [m |-> n, value |-> read(n, "device_features")])

\* A device_features that reads the low word only.
device_features_low(m) ==
    Bind(device_features_partial(m, 0),
         LAMBDA low : [m |-> low.m, value |-> low.value])

\* MmioDevice::device_features
device_features(m) ==
    Bind(device_features_partial(m, 0),
         LAMBDA low :
            Bind(device_features_partial(low.m, 1),
                 LAMBDA high : [m |-> high.m,
                                value |-> shl_32(high.value) \cup low.value]))

\* MmioDevice::set_driver_features_partial
set_driver_features_partial(m, select, features) ==
    write(write(m, "driver_features_select", select), "driver_features", features)

\* MmioDevice::set_driver_features
set_driver_features(m, features) ==
    set_driver_features_partial(
        set_driver_features_partial(m, 0, low_32(features)), 1, shr_32(features))

\* MmioDevice::status
status(m) == read(m, "status")

\* MmioDevice::set_status
set_status(m, value) == write(m, "status", value)

\* An add_status that writes the bit alone.
add_status_alone(m, value) == write(m, "status", value)

\* MmioDevice::add_status
add_status(m, value) == write(m, "status", status(m) \cup value)

\* MmioDevice::queue_ready
queue_ready(m) == read(m, "queue_ready") # 0

\* MmioDevice::set_queue_ready
set_queue_ready(m, ready) == write(m, "queue_ready", IF ready THEN 1 ELSE 0)

\* MmioDevice::set_queue_descriptors, set_queue_available, set_queue_used:
\* low and high are the two registers of the ring.
set_queue_address(m, low, high, address) ==
    write(write(m, low, address_low(address)), high, address_high(address))

\* VirtIoBlockDevice::is_block_device
is_block_device(m) ==
    /\ read(m, "magic") = VIRTIO_MMIO_MAGIC
    /\ read(m, "version") \in {1, 2}
    /\ read(m, "device_id") = VIRTIO_BLOCK_DEVICE_ID

\* The bus as initialize finds it.
Bus == [regs |-> regs, writes |-> writes]

\* initialize goes on at the statement pc over the bus m.
InitContinue(m, pc) ==
    /\ regs' = m.regs
    /\ writes' = m.writes
    /\ vinit' = [vinit EXCEPT !.pc = pc]

\* initialize returns result over the bus m.
InitReturn(m, result) ==
    /\ regs' = m.regs
    /\ writes' = m.writes
    /\ vinit' = [vinit EXCEPT !.pc = "returned", !.result = result]

\* initialize: the check that this is a VirtIO block device.
Probe ==
    /\ vinit.pc = "is_block_device"
    /\ IF ~is_block_device(Bus)
       THEN InitReturn(Bus, "Not a valid VirtIO block device.")
       ELSE InitContinue(Bus, "set_status")
    /\ UNCHANGED <<listVars, ptVars, virtioVars, pteVars, lockVars, ptrVars, bootVars,
                   ringVars>>

\* initialize: reset the device, acknowledge it, announce a driver.
ResetDevice ==
    /\ vinit.pc = "set_status"
    /\ InitContinue(add_status(set_status(set_status(Bus, {}),
                                      VIRTIO_CONFIG_S_ACKNOWLEDGE),
                           VIRTIO_CONFIG_S_DRIVER),
                "device_features")
    /\ UNCHANGED <<listVars, ptVars, virtioVars, pteVars, lockVars, ptrVars, bootVars,
                   ringVars>>

\* The features initialize writes back for the features the device offers.
supported_features(features) ==
    clear_bit(clear_bit(clear_bit(clear_bit(clear_bit(clear_bit(clear_bit(features,
        VIRTIO_BLK_F_RO), VIRTIO_BLK_F_SCSI), VIRTIO_BLK_F_CONFIG_WCE),
        VIRTIO_BLK_F_MQ), VIRTIO_F_ANY_LAYOUT), VIRTIO_RING_F_EVENT_IDX),
        VIRTIO_RING_F_INDIRECT_DESC)

\* A check of the Status read back that finds FEATURES_OK whatever was read.
features_refused_never(value) == FALSE

\* self.mmio.status() & VIRTIO_CONFIG_S_FEATURES_OK == 0
features_refused(value) == value \cap VIRTIO_CONFIG_S_FEATURES_OK = {}

\* initialize: read the device's features, write the driver's, set
\* FEATURES_OK and read Status back.
NegotiateFeatures ==
    /\ vinit.pc = "device_features"
    /\ Bind(device_features(Bus),
            LAMBDA features :
               Bind(add_status(set_driver_features(features.m,
                                    supported_features(features.value)),
                               VIRTIO_CONFIG_S_FEATURES_OK),
                    LAMBDA m :
                       IF features_refused(status(m))
                       THEN InitReturn(add_status(m, VIRTIO_CONFIG_S_FAILED),
                                   "feature negotiation failed")
                       ELSE InitContinue(m, "set_queue_select")))
    /\ UNCHANGED <<listVars, ptVars, virtioVars, pteVars, lockVars, ptrVars, bootVars,
                   ringVars>>

\* initialize: select queue 0, check it, set its size and its three rings.
ConfigureQueue ==
    /\ vinit.pc = "set_queue_select"
    /\ Bind(write(Bus, "queue_select", 0),
            LAMBDA m :
               IF queue_ready(m)
               THEN InitReturn(m, "Queue 0 should not be ready.")
               ELSE IF read(m, "queue_num_max") = 0
               THEN InitReturn(m, "VirtIO block device has no queue.")
               ELSE IF read(m, "queue_num_max") < QUEUE_SIZE
               THEN InitReturn(m, "VirtIO block device queue size is too small.")
               ELSE InitContinue(
                      set_queue_address(
                        set_queue_address(
                          set_queue_address(write(m, "queue_num", QUEUE_SIZE),
                            "queue_desc_low", "queue_desc_high",
                            RingAddress.DESCRIPTORS),
                          "queue_avail_low", "queue_avail_high",
                          RingAddress.AVAILABLE_RING),
                        "queue_used_low", "queue_used_high", RingAddress.USED),
                      "set_queue_ready"))
    /\ UNCHANGED <<listVars, ptVars, virtioVars, pteVars, lockVars, ptrVars, bootVars,
                   ringVars>>

\* initialize: switch the ring notifications off, acknowledge a pending
\* interrupt, enable the queue, set DRIVER_OK and read QueueReady back.
EnableQueue ==
    /\ vinit.pc = "set_queue_ready"
    /\ AVAILABLE_RING' = [AVAILABLE_RING EXCEPT !.flags = VIRTQ_AVAIL_F_NO_INTERRUPT]
    /\ USED' = [USED EXCEPT !.flags = VIRTQ_USED_F_NO_NOTIFY]
    /\ Bind(add_status(
              set_queue_ready(
                IF read(Bus, "interrupt_status") # 0
                THEN write(Bus, "interrupt_ack", read(Bus, "interrupt_status"))
                ELSE Bus,
                TRUE),
              VIRTIO_CONFIG_S_DRIVER_OK),
            LAMBDA m :
               IF ~queue_ready(m)
               THEN InitReturn(m, "VirtIO block device queue is not ready.")
               ELSE InitReturn(m, "Ok"))
    /\ UNCHANGED <<DESCRIPTORS, READ_STATUS, drv, dev, buffers, vret, listVars,
                   ptVars, pteVars, lockVars, ptrVars, bootVars,
                   ringVars>>

\* initialize is called on a device of Devices.
InitInit ==
    /\ first_page = NONE
    /\ last_page = NONE
    /\ mem = [p \in Pages |-> ClearedPage]
    /\ panic = NoPanic
    /\ call = NoCall
    /\ expected = {}
    /\ runUsed = FALSE
    /\ misuse = FALSE
    /\ root = NONE
    /\ pt = [p \in Pages |-> EmptyTable]
    /\ ptcall = NoPtCall
    /\ InitVirtioVars
    /\ InitPteVars
    /\ InitLockVars
    /\ InitPtrVars
    /\ InitBootVars
    /\ InitRingVars
    /\ regs \in Devices
    /\ vinit = [pc |-> "is_block_device", result |-> "none"]
    /\ writes = <<>>

NextInit ==
    \/ Probe
    \/ ResetDevice
    \/ NegotiateFeatures
    \/ ConfigureQueue
    \/ EnableQueue

SpecInit == InitInit /\ [][NextInit]_vars

\* The values initialize has written to a register, in order.
Written(register) ==
    [i \in 1..Len(SelectSeq(writes, LAMBDA w : w.register = register)) |->
        SelectSeq(writes, LAMBDA w : w.register = register)[i].value]

\* s is a prefix of t.
IsPrefix(s, t) == Len(s) <= Len(t) /\ \A i \in 1..Len(s) : s[i] = t[i]

\* Some write before the i-th wrote value to register.
WroteBefore(i, register, value) ==
    \E k \in 1..(i - 1) : writes[k].register = register /\ writes[k].value = value

\* C28: against a device that accepts the negotiated features the Status
\* writes of initialize are, in order, 0, ACKNOWLEDGE, +DRIVER, +FEATURES_OK,
\* +DRIVER_OK; QueueNum and the three ring addresses of queue 0 are written
\* before QueueReady=1, and that before DRIVER_OK; no Status write after the
\* reset clears a bit the register held; and when initialize returns Ok,
\* Status holds ACKNOWLEDGE|DRIVER|FEATURES_OK|DRIVER_OK and QueueReady
\* reads 1.
C28_InitSequence ==
    regs.accepts =>
        /\ IsPrefix(Written("status"),
                    <<{},
                      VIRTIO_CONFIG_S_ACKNOWLEDGE,
                      VIRTIO_CONFIG_S_ACKNOWLEDGE \cup VIRTIO_CONFIG_S_DRIVER,
                      VIRTIO_CONFIG_S_ACKNOWLEDGE \cup VIRTIO_CONFIG_S_DRIVER
                          \cup VIRTIO_CONFIG_S_FEATURES_OK,
                      VIRTIO_CONFIG_S_ACKNOWLEDGE \cup VIRTIO_CONFIG_S_DRIVER
                          \cup VIRTIO_CONFIG_S_FEATURES_OK
                          \cup VIRTIO_CONFIG_S_DRIVER_OK>>)
        /\ \A i \in 1..Len(writes) :
              (/\ writes[i].register = "status"
               /\ VIRTIO_CONFIG_S_DRIVER_OK \subseteq writes[i].value) =>
              \E j \in 1..(i - 1) :
                 /\ writes[j].register = "queue_ready"
                 /\ writes[j].value = 1
                 /\ \E s \in 1..(j - 1) :
                       /\ writes[s].register = "queue_select"
                       /\ writes[s].value = 0
                       /\ \A k \in (s + 1)..j : writes[k].register # "queue_select"
                 /\ WroteBefore(j, "queue_num", QUEUE_SIZE)
                 /\ WroteBefore(j, "queue_desc_low", Address(524304, 0))
                 /\ WroteBefore(j, "queue_desc_high", 0)
                 /\ WroteBefore(j, "queue_avail_low", Address(524305, 0))
                 /\ WroteBefore(j, "queue_avail_high", 0)
                 /\ WroteBefore(j, "queue_used_low", Address(524306, 0))
                 /\ WroteBefore(j, "queue_used_high", 0)
        /\ \A i \in 2..Len(writes) :
              writes[i].register = "status" => writes[i].was \subseteq writes[i].value
        /\ vinit.result = "Ok" =>
              /\ regs.status = {0, 1, 2, 3}
              /\ DeviceRead(regs, "queue_ready") = 1

\* initialize has returned Ok on a device that was in use: the reset cleared
\* the four status bits the device held.
C28_Witness ==
    /\ vinit.result = "Ok"
    /\ regs.accepts
    /\ writes[1].was = {0, 1, 2, 3}

\* The i-th write set FEATURES_OK and the device does not show the bit.
Refused(i) ==
    /\ writes[i].register = "status"
    /\ VIRTIO_CONFIG_S_FEATURES_OK \subseteq writes[i].value
    /\ VIRTIO_CONFIG_S_FEATURES_OK \cap writes[i].now = {}

\* C29: when the device does not show FEATURES_OK after initialize has set
\* it, initialize writes Status with FAILED added and returns the error; it
\* writes none of the queue registers and no Status with DRIVER_OK.
C29_FeaturesRefused ==
    \A i \in 1..Len(writes) :
       Refused(i) =>
          /\ vinit.pc = "returned"
          /\ vinit.result = "feature negotiation failed"
          /\ Len(writes) = i + 1
          /\ writes[i + 1].register = "status"
          /\ writes[i + 1].value = writes[i].now \cup {7}
          /\ {7} \subseteq regs.status
          /\ \A k \in 1..Len(writes) :
                /\ writes[k].register \notin
                      {"queue_select", "queue_num", "queue_ready",
                       "queue_desc_low", "queue_desc_high", "queue_avail_low",
                       "queue_avail_high", "queue_used_low", "queue_used_high"}
                /\ writes[k].register = "status" => 2 \notin writes[k].value

\* The device refused the features and initialize has returned the error.
C29_Witness ==
    /\ vinit.result = "feature negotiation failed"
    /\ \E i \in 1..Len(writes) : Refused(i)

\* The 64-bit value of the DriverFeatures writes: the word written under
\* select 0 in bits 31..0, the word written under select 1 in bits 63..32.
DriverFeaturesWritten ==
    UNION {{b + 32 * writes[i - 1].value : b \in writes[i].value} :
              i \in {k \in 2..Len(writes) : writes[k].register = "driver_features"}}

\* C30: the DriverFeatures value initialize writes is the 64-bit
\* DeviceFeatures value without the bits RO, SCSI, CONFIG_WCE, MQ,
\* ANY_LAYOUT, RING_EVENT_IDX and RING_INDIRECT_DESC: a subset of what the
\* device offers that keeps every other offered bit of either half.
C30_DriverFeatures ==
    (\E i \in 1..Len(writes) : writes[i].register = "status"
                                 /\ 3 \in writes[i].value) =>
        /\ \A i \in 1..Len(writes) :
              writes[i].register = "driver_features" =>
                 /\ i > 1
                 /\ writes[i - 1].register = "driver_features_select"
                 /\ writes[i - 1].value \in {0, 1}
                 /\ writes[i].value \subseteq 0..31
        /\ Written("driver_features_select") = <<0, 1>>
        /\ DriverFeaturesWritten = regs.offered \ {5, 7, 11, 12, 27, 28, 29}
        /\ DriverFeaturesWritten \subseteq regs.offered
        /\ regs.offered \ DriverFeaturesWritten \subseteq {5, 7, 11, 12, 27, 28, 29}
        /\ regs.driver_features = DriverFeaturesWritten \/ regs.status = {}

\* initialize has written the features of a device that offers refused and
\* kept bits below bit 32 and bits above it.
C30_Witness ==
    /\ regs.offered = {5, 9, 12, 28, 29, 32}
    /\ DriverFeaturesWritten = {9, 32}
    /\ vinit.pc = "set_queue_select"

\* ------------------------------------------------------------------------
\* Part 9: read_sector statement by statement (xtra-bootloader/src/
\* virtio.rs).  Between any two statements the device may fetch an available
\* request or complete one.  rq is history: the available index the call
\* found, the ring slot it wrote, the used index at its QueueNotify write,
\* the number of calls made before it and how many of them did not return
\* Ok.
\* ------------------------------------------------------------------------

\* A read_sector that advances the available index before it writes the
\* descriptors.
StatementOrder_index_first ==
    <<"READ_STATUS", "AVAILABLE_RING.0.index", "DESCRIPTORS.0[0]",
      "DESCRIPTORS.0[1]", "DESCRIPTORS.0[2]", "AVAILABLE_RING.0.ring",
      "notify_queue", "starting_used_index", "last_read">>

\* The statements of read_sector before its polling loop, in program order.
StatementOrder ==
    <<"READ_STATUS", "DESCRIPTORS.0[0]", "DESCRIPTORS.0[1]", "DESCRIPTORS.0[2]",
      "AVAILABLE_RING.0.ring", "AVAILABLE_RING.0.index", "notify_queue",
      "starting_used_index", "last_read">>

\* The statement after pc; the polling loop follows the last one.
After(pc) ==
    LET i == CHOOSE k \in 1..Len(StatementOrder) : StatementOrder[k] = pc
    IN IF i = Len(StatementOrder) THEN "poll" ELSE StatementOrder[i + 1]

\* The driver is at statement pc and goes on to the one after it.
At(pc) ==
    /\ drv.pc = pc
    /\ drv' = [drv EXCEPT !.pc = After(pc)]

\* Bound: the number of read_sector calls followed statement by statement.
MaxRequests == 2

\* The available index read_sector is first called with: 0 after
\* initialize, 65534 after 65534 calls that each returned Ok.
StartIndices == {0, 65534}

\* read_sector(sector, buffer) is called: the request header is built on the
\* stack.
Call(sector, b) ==
    /\ drv.pc = "idle"
    /\ drv.calls < MaxRequests
    /\ drv' = [drv EXCEPT !.pc = StatementOrder[1], !.sector = sector,
                          !.buffer = b, !.calls = drv.calls + 1]
    /\ rq' = [rq EXCEPT !.avail0 = AVAILABLE_RING.index,
                        !.slot = QUEUE_SIZE,
                        !.used_notify = USED.index,
                        !.calls = drv.calls,
                        !.failed = @ + (IF drv.calls > 0 /\ vret.ret # "Ok"
                                        THEN 1 ELSE 0)]
    /\ UNCHANGED <<DESCRIPTORS, AVAILABLE_RING, USED, READ_STATUS, dev, buffers, vret,
                   listVars, ptVars, pteVars, lockVars, ptrVars, bootVars, mmioVars,
                   bd, it>>

\* READ_STATUS = 0xff
WriteReadStatus ==
    /\ At("READ_STATUS")
    /\ READ_STATUS' = 255
    /\ UNCHANGED <<DESCRIPTORS, AVAILABLE_RING, USED, dev, buffers, vret,
                   listVars, ptVars, pteVars, lockVars, lateVars>>

\* DESCRIPTORS.0[i] = Descriptor { .. }
WriteDescriptor(i) ==
    /\ At(StatementOrder[CHOOSE k \in 1..Len(StatementOrder) :
                            StatementOrder[k] = <<"DESCRIPTORS.0[0]", "DESCRIPTORS.0[1]",
                                                  "DESCRIPTORS.0[2]">>[i + 1]])
    /\ DESCRIPTORS' = [DESCRIPTORS EXCEPT ![i] = RequestChain(drv.buffer)[i]]
    /\ UNCHANGED <<AVAILABLE_RING, USED, READ_STATUS, dev, buffers, vret,
                   listVars, ptVars, pteVars, lockVars, lateVars>>

\* AVAILABLE_RING.0.ring[AVAILABLE_RING.0.index as usize % QUEUE_SIZE] = 0
WriteRingSlot ==
    /\ At("AVAILABLE_RING.0.ring")
    /\ AVAILABLE_RING' =
          [AVAILABLE_RING EXCEPT !.ring[AVAILABLE_RING.index % QUEUE_SIZE] = 0]
    /\ rq' = [rq EXCEPT !.slot = AVAILABLE_RING.index % QUEUE_SIZE]
    /\ UNCHANGED <<DESCRIPTORS, USED, READ_STATUS, dev, buffers, vret,
                   listVars, ptVars, pteVars, lockVars, ptrVars, bootVars, mmioVars,
                   bd, it>>

\* AVAILABLE_RING.0.index = AVAILABLE_RING.0.index.wrapping_add(1), between
\* the two SeqCst fences.
AdvanceIndex ==
    /\ At("AVAILABLE_RING.0.index")
    /\ AVAILABLE_RING' =
          [AVAILABLE_RING EXCEPT !.index = wrapping_add_1(AVAILABLE_RING.index)]
    /\ UNCHANGED <<DESCRIPTORS, USED, READ_STATUS, dev, buffers, vret,
                   listVars, ptVars, pteVars, lockVars, lateVars>>

\* self.mmio.notify_queue(0)
NotifyQueue ==
    /\ At("notify_queue")
    /\ dev' = [dev EXCEPT !.notified = TRUE]
    /\ rq' = [rq EXCEPT !.used_notify = USED.index]
    /\ UNCHANGED <<DESCRIPTORS, AVAILABLE_RING, USED, READ_STATUS, buffers, vret,
                   listVars, ptVars, pteVars, lockVars, ptrVars, bootVars, mmioVars,
                   bd, it>>

\* let starting_used_index = USED.0.index; let mut timeout = 10_000_000
SampleStarting ==
    /\ drv.pc = "starting_used_index"
    /\ drv' = [drv EXCEPT !.pc = After("starting_used_index"),
                          !.starting_used_index = USED.index,
                          !.timeout = PollLimit]
    /\ UNCHANGED <<DESCRIPTORS, AVAILABLE_RING, USED, READ_STATUS, dev, buffers, vret,
                   listVars, ptVars, pteVars, lockVars, lateVars>>

\* let mut last_read = USED.0.index
SampleLastRead ==
    /\ drv.pc = "last_read"
    /\ drv' = [drv EXCEPT !.pc = After("last_read"), !.last_read = USED.index]
    /\ UNCHANGED <<DESCRIPTORS, AVAILABLE_RING, USED, READ_STATUS, dev, buffers, vret,
                   listVars, ptVars, pteVars, lockVars, lateVars>>

\* The driver after initialize, or after StartIndices calls that returned
\* Ok: the rings agree, the device holds no request.
InitRing ==
    /\ first_page = NONE
    /\ last_page = NONE
    /\ mem = [p \in Pages |-> ClearedPage]
    /\ panic = NoPanic
    /\ call = NoCall
    /\ expected = {}
    /\ runUsed = FALSE
    /\ misuse = FALSE
    /\ root = NONE
    /\ pt = [p \in Pages |-> EmptyTable]
    /\ ptcall = NoPtCall
    /\ InitPteVars
    /\ InitLockVars
    /\ InitPtrVars
    /\ InitBootVars
    /\ InitMmioVars
    /\ bd = <<>>
    /\ it = <<>>
    /\ \E k \in StartIndices : \E b \in BufIds :
          /\ DESCRIPTORS = [i \in 0..(QUEUE_SIZE - 1) |->
                               IF k > 0 /\ i \in 0..2 THEN RequestChain(b)[i]
                               ELSE Descriptor_zeroed]
          /\ AVAILABLE_RING = [flags |-> VIRTQ_AVAIL_F_NO_INTERRUPT, index |-> k,
                               ring |-> [i \in 0..(QUEUE_SIZE - 1) |-> 0]]
          /\ USED = [flags |-> VIRTQ_USED_F_NO_NOTIFY, index |-> k]
          /\ READ_STATUS = IF k > 0 THEN 0 ELSE 255
          /\ dev = [last_avail |-> k, notified |-> FALSE, inflight |-> <<>>]
          /\ rq = [k0 |-> k, avail0 |-> k, slot |-> QUEUE_SIZE, used_notify |-> k,
                   calls |-> 0, failed |-> 0]
    /\ drv = DriverIdle
    /\ buffers = [b \in BufIds |-> Unwritten]
    /\ vret = NoReturn

NextRing ==
    \/ \E sector \in Sectors : \E b \in BufIds : Call(sector, b)
    \/ WriteReadStatus
    \/ \E i \in 0..2 : WriteDescriptor(i)
    \/ WriteRingSlot
    \/ AdvanceIndex
    \/ NotifyQueue
    \/ SampleStarting
    \/ SampleLastRead
    \/ Poll
    \/ Return
    \/ DevFetch
    \/ \E st \in DevStatuses : DevComplete(st)

SpecRing == InitRing /\ [][NextRing]_vars

\* The driver keeps executing its statements; nothing is assumed of the
\* device.
SpecRingFair ==
    /\ SpecRing
    /\ WF_vars(WriteReadStatus \/ (\E i \in 0..2 : WriteDescriptor(i)) \/ WriteRingSlot
               \/ AdvanceIndex \/ NotifyQueue \/ SampleStarting \/ SampleLastRead
               \/ Poll \/ Return)

\* The driver is inside a call and has executed its QueueNotify write.
Notified == drv.pc \in {"starting_used_index", "last_read", "poll"}

\* Descriptors 0, 1, 2 form a chain 0 -> 1 -> 2 with flags NEXT, NEXT|WRITE,
\* WRITE that ends at descriptor 2.
ChainComplete(head) ==
    LET d0 == DESCRIPTORS[head]
        d1 == DESCRIPTORS[d0.next]
        d2 == DESCRIPTORS[d1.next]
    IN /\ head = 0 /\ d0.next = 1 /\ d1.next = 2
       /\ d0.flags = VIRTQ_DESC_F_NEXT
       /\ d1.flags = VIRTQ_DESC_F_NEXT + VIRTQ_DESC_F_WRITE
       /\ d2.flags = VIRTQ_DESC_F_WRITE

\* C31: in every read_sector call the available index is advanced only after
\* descriptors 0..2 hold the call's chain and the ring slot of the old index
\* holds 0, QueueNotify is written only after the index was advanced, and
\* whenever the device sees an index ahead of its own the chain it follows
\* from the ring slot is complete.
C31_PublishAfterChain ==
    /\ (drv.pc # "idle" /\ AVAILABLE_RING.index # rq.avail0) =>
          /\ \A i \in 0..2 : DESCRIPTORS[i] = RequestChain(drv.buffer)[i]
          /\ rq.slot = rq.avail0 % QUEUE_SIZE
          /\ AVAILABLE_RING.ring[rq.avail0 % QUEUE_SIZE] = 0
    /\ Notified => AVAILABLE_RING.index = wrapping_add_1(rq.avail0)
    /\ dev.last_avail # AVAILABLE_RING.index =>
          ChainComplete(AVAILABLE_RING.ring[dev.last_avail % QUEUE_SIZE])

\* The first call after initialize has advanced the index and is about to
\* write QueueNotify, with the device not yet notified.
C31_Witness ==
    /\ drv.pc = "notify_queue"
    /\ rq.k0 = 0 /\ rq.calls = 0
    /\ AVAILABLE_RING.index = 1
    /\ ~dev.notified
    /\ ChainComplete(AVAILABLE_RING.ring[0])

\* C32: each read_sector call advances AvailableRing.index by exactly 1
\* modulo 2^16 and writes the ring slot (old index mod QUEUE_SIZE); when
\* every call so far returned Ok, the available and the used index both equal
\* the number of calls modulo 2^16.
C32_IndexCountsCalls ==
    /\ drv.pc # "idle" =>
          /\ AVAILABLE_RING.index \in {rq.avail0, (rq.avail0 + 1) % 65536}
          /\ Notified => AVAILABLE_RING.index = (rq.avail0 + 1) % 65536
          /\ rq.slot \in {QUEUE_SIZE, rq.avail0 % QUEUE_SIZE}
          /\ Notified => rq.slot = rq.avail0 % QUEUE_SIZE
    /\ (drv.pc = "idle" /\ rq.failed = 0 /\ (drv.calls > 0 => vret.ret = "Ok")) =>
          /\ AVAILABLE_RING.index = (rq.k0 + drv.calls) % 65536
          /\ USED.index = (rq.k0 + drv.calls) % 65536

\* Two calls that returned Ok took the index from 65534 through 65535 to 0.
C32_Witness ==
    /\ drv.pc = "idle"
    /\ rq.k0 = 65534 /\ drv.calls = 2
    /\ rq.failed = 0 /\ vret.ret = "Ok"
    /\ AVAILABLE_RING.index = 0 /\ USED.index = 0

\* read_sector returns from its polling loop.
Returns == drv.pc = "poll" /\ drv'.pc = "idle"

\* C33: read_sector terminates whatever the device does: every call that has
\* started returns, and a call during which the used index never moved after
\* the QueueNotify write returns the timeout error when its poll counter has
\* run down to 0.
C33_ReadSectorTerminates ==
    /\ (drv.pc # "idle") ~> (drv.pc = "idle")
    /\ [][(Returns /\ USED.index = rq.used_notify) =>
             /\ drv.timeout = 0
             /\ vret'.ret = read_sector_result(0, READ_STATUS)]_vars

\* A call returned the timeout error from a device that never took the
\* request.
C33_Witness ==
    /\ drv.pc = "idle"
    /\ drv.calls = 1
    /\ vret.ret = read_sector_result(0, READ_STATUS)
    /\ dev.last_avail # AVAILABLE_RING.index
    /\ USED.index = rq.used_notify

\* The device owns a request: it was published and is not yet completed.
Owned == dev.last_avail # AVAILABLE_RING.index \/ dev.inflight # <<>>

\* C34: after a call has rewritten READ_STATUS, and while it rewrites
\* descriptors 0..2 and the ring slot (its own request is not yet published),
\* the device owns no earlier request.
C34_NoRewriteWhileOwned ==
    (/\ drv.pc # "idle"
     /\ drv.pc # StatementOrder[1]
     /\ AVAILABLE_RING.index = rq.avail0) => ~Owned

\* C35: the first read_sector call returns the timeout error only if the
\* last value it read from the used index is still the value the index had
\* at the QueueNotify write.
C35_TimeoutOnlyIfSilent ==
    [][(/\ Returns
        /\ rq.calls = 0
        /\ vret'.ret = read_sector_result(0, READ_STATUS)) =>
           drv.last_read = rq.used_notify]_vars

\* C36: a free-list call writes bookkeeping only into pages that are in the
\* list before or after it: the record inside a page that is neither among
\* the addresses inserted and not yet popped nor linked from the head, before
\* and after the call, is left as it was.
C36_OnlyListPagesWritten ==
    [][~misuse' =>
         \A p \in Pages :
            (/\ p \notin expected \cup expected'
             /\ p \notin Range(Addrs(Cur))
             /\ p \notin Range(Addrs([Cur EXCEPT !.first_page = first_page',
                                                 !.last_page = last_page',
                                                 !.mem = mem'])))
            => mem'[p] = mem[p]]_vars

\* C37: after a map call that returned Ok, the entry it wrote into the
\* VPN[0] slot of vaddr is, when Valid, classified as a leaf, whatever
\* permission set was passed.
C37_MappedEntryIsLeaf ==
    (MapWithValidAddresses /\ ptcall.ret.kind = "Ok") =>
        LET entry == LeafEntry(CurS, root, ptcall.va)
        IN is_valid(entry) => is_leaf(entry)

\* C38: when hart 0 is about to execute init_memory_manager the highest RAM
\* end has been stored, and hart 0 does not panic in init_memory_manager:
\* if it panics at all it has completed init_memory_manager before.
C38_MemoryManagerInitialised ==
    /\ cores[0].pc = "init_memory_manager" => HIGHEST_PHYSICAL_ADDRESS # Null
    /\ cores[0].pc = "panicked" => "init_memory_manager" \in cores[0].executed

\* ------------------------------------------------------------------------
\* BlockDevice::read_sector (xtra-bootloader/src/block_device.rs) and its
\* device.  The device keeps its own free-running count of the requests it
\* has taken, takes the head of the next one from ring[count mod QUEUE_SIZE]
\* and follows the descriptor chain from there.  bd.slot, bd.index0 and
\* bd.head are history: the ring slot the last call wrote, the available
\* index it found and the head of the chain it built.
\* ------------------------------------------------------------------------

\* block_device.rs: QUEUE_SIZE
BD_QUEUE_SIZE == 16

\* fn next_index(index: usize) -> u16
next_index(index) == index % BD_QUEUE_SIZE

\* VirtIoDescriptor of an unused slot.
VirtIoDescriptor_zeroed == [address |-> AddrNull, length |-> 0, flags |-> 0, next |-> 0]

\* BlockDevice::new: the queue zeroed, both indices 0; no call made, the
\* device idle, the callers' buffers not written.
BlockDevice_new ==
    [pc |-> "idle",
     queue_descriptor |-> [i \in 0..(BD_QUEUE_SIZE - 1) |-> VirtIoDescriptor_zeroed],
     queue_available |-> [flags |-> 0, index |-> 0,
                          ring |-> [i \in 0..(BD_QUEUE_SIZE - 1) |-> 0]],
     queue_used |-> [flags |-> 0, index |-> 0],
     available_index |-> 0,
     last_used_index |-> 0,
     sector |-> 0, buffer |-> 0, status |-> 0, ret |-> "none",
     taken |-> 0, notified |-> FALSE,
     buffers |-> [b \in BufIds |-> Unwritten],
     calls |-> 0, slot |-> 0, index0 |-> 0, head |-> 0]

\* read_sector(sector, buffer) up to notify_queue(0): the three descriptors
\* from descriptor_index on, the ring slot, the available index.
BlockDevice_publish(self, sector, b) ==
    LET descriptor_index == self.available_index
        d1 == next_index(descriptor_index + 1)
        d2 == next_index(descriptor_index + 2)
        slot == self.available_index % BD_QUEUE_SIZE
    IN [self EXCEPT
          !.pc = "while",
          !.sector = sector, !.buffer = b, !.status = 0,
          !.queue_descriptor =
              [i \in 0..(BD_QUEUE_SIZE - 1) |->
                  IF i = d2 THEN [address |-> AddrStatus, length |-> 1,
                                  flags |-> VIRTQ_DESC_F_WRITE, next |-> 0]
                  ELSE IF i = d1 THEN [address |-> AddrBuffer(b), length |-> 512,
                                       flags |-> VIRTQ_DESC_F_WRITE + VIRTQ_DESC_F_NEXT,
                                       next |-> d2]
                  ELSE IF i = descriptor_index
                       THEN [address |-> AddrRequest, length |-> 16,
                             flags |-> VIRTQ_DESC_F_NEXT, next |-> d1]
                  ELSE self.queue_descriptor[i]],
          !.queue_available.ring[slot] = descriptor_index,
          !.queue_available.index = next_index(self.queue_available.index + 1),
          !.notified = TRUE,
          !.calls = self.calls + 1,
          !.slot = slot,
          !.index0 = self.queue_available.index,
          !.head = descriptor_index]

\* The end of read_sector once the used index differs from last_used_index.
BlockDevice_return(self) ==
    [self EXCEPT
        !.pc = "idle",
        !.last_used_index = self.queue_used.index,
        !.available_index = next_index(self.available_index + 3),
        !.ret = IF self.status = 0 THEN "Ok" ELSE "Err"]

\* The device takes the request at ring[taken mod QUEUE_SIZE]: it reads the
\* header at the first descriptor's address (the local `request` of the
\* running call), stores the sector where the second descriptor points and
\* the status byte where the third points (the local `status` of the running
\* call), and advances the used index.
BlockDevice_serve(self, st) ==
    LET head == self.queue_available.ring[self.taken % BD_QUEUE_SIZE]
        d0 == self.queue_descriptor[head]
        d1 == self.queue_descriptor[d0.next]
        d2 == self.queue_descriptor[d1.next]
    IN [self EXCEPT
          !.buffers = IF st = 0 /\ d0.address = AddrRequest
                      THEN [b \in BufIds |->
                              IF d1.address = AddrBuffer(b) THEN Disk[self.sector]
                              ELSE self.buffers[b]]
                      ELSE self.buffers,
          !.status = IF d2.address = AddrStatus THEN st ELSE self.status,
          !.queue_used.index = wrapping_add_1(self.queue_used.index),
          !.taken = wrapping_add_1(self.taken),
          !.notified = (wrapping_add_1(self.taken) # self.queue_available.index)]

BdReadSector(sector, b) ==
    /\ bd.pc = "idle"
    /\ bd.calls < MaxCalls
    /\ bd' = BlockDevice_publish(bd, sector, b)
    /\ UNCHANGED <<listVars, ptVars, virtioVars, pteVars, lockVars,
                   ptrVars, bootVars, mmioVars, rq, it>>

BdServe(st) ==
    /\ bd.notified
    /\ bd.taken # bd.queue_available.index
    /\ bd' = BlockDevice_serve(bd, st)
    /\ UNCHANGED <<listVars, ptVars, virtioVars, pteVars, lockVars,
                   ptrVars, bootVars, mmioVars, rq, it>>

BdReturn ==
    /\ bd.pc = "while"
    /\ bd.last_used_index # bd.queue_used.index
    /\ bd' = BlockDevice_return(bd)
    /\ UNCHANGED <<listVars, ptVars, virtioVars, pteVars, lockVars,
                   ptrVars, bootVars, mmioVars, rq, it>>

InitBd ==
    /\ first_page = NONE
    /\ last_page = NONE
    /\ mem = [p \in Pages |-> ClearedPage]
    /\ panic = NoPanic
    /\ call = NoCall
    /\ expected = {}
    /\ runUsed = FALSE
    /\ misuse = FALSE
    /\ root = NONE
    /\ pt = [p \in Pages |-> EmptyTable]
    /\ ptcall = NoPtCall
    /\ InitVirtioVars
    /\ InitPteVars
    /\ InitLockVars
    /\ InitPtrVars
    /\ InitBootVars
    /\ InitMmioVars
    /\ rq = <<>>
    /\ it = <<>>
    /\ bd = BlockDevice_new

NextBd ==
    \/ \E sector \in Sectors : \E b \in BufIds : BdReadSector(sector, b)
    \/ \E st \in DevStatuses : BdServe(st)
    \/ BdReturn

SpecBd == InitBd /\ [][NextBd]_vars

\* C39: every call of BlockDevice::read_sector writes the head of the chain
\* it built into ring[AvailableRing.index mod QUEUE_SIZE], the slot the device
\* takes next, and then advances the index by 1 modulo 2^16.
C39_HeadInNextSlot ==
    bd.calls > 0 =>
        /\ bd.slot = bd.index0 % BD_QUEUE_SIZE
        /\ bd.queue_available.ring[bd.index0 % BD_QUEUE_SIZE] = bd.head
        /\ bd.queue_available.index = (bd.index0 + 1) % 65536

\* ------------------------------------------------------------------------
\* Part 10: PageTableIterator (arch/riscv_64/mmu/sv39/page_table.rs).  A
\* table is stored by its populated slots; every other slot of its 512
\* holds new_invalid.  it.tables is the memory that holds the tables, by
\* page number; it.yielded, it.done, it.panicked and it.calls are history.
\* ------------------------------------------------------------------------

PAGE_TABLE_SIZE == 512

MAX_TABLE_INDIRECTIONS == 3

\* Bound: the number of next() calls made on one iterator.
MaxNexts == 3

\* The slots of a table that may hold a valid entry: the first and the last.
Slots == {0, PAGE_TABLE_SIZE - 1}

\* What a populated slot holds.
Kinds == {"invalid", "leaf", "ptr"}

\* The page of the root table, of the table the root slot s2 points to, and
\* of the table slot s1 of that table points to.
RootPage == 1

TablePage1(s2) == 2 + s2

TablePage0(s2, s1) == 1024 + s2 * PAGE_TABLE_SIZE + s1

\* The page a leaf in slot s of the table in page p maps.
LeafPage(p, s) == 2097152 + p * PAGE_TABLE_SIZE + s

\* An entry of kind k in slot s of the table in page p, whose child table
\* (kind "ptr") is in page child: a leaf is readable, a pointer has R=W=X=0.
IterEntry(k, p, s, child) ==
    IF k = "leaf" THEN [PageTableEntry_new EXCEPT !.r = TRUE, !.ppn = LeafPage(p, s)]
    ELSE IF k = "ptr" THEN [PageTableEntry_new EXCEPT !.ppn = child]
    ELSE new_invalid

\* The tables of an address space whose root, level-1 and level-0 tables hold
\* the kinds k2, k1, k0 in their populated slots.
IterTables(k2, k1, k0) ==
    [p \in {RootPage} \cup {TablePage1(s2) : s2 \in Slots}
           \cup {TablePage0(s2, s1) : s2 \in Slots, s1 \in Slots} |->
        IF p = RootPage
        THEN [s \in Slots |-> IterEntry(k2[s], p, s, TablePage1(s))]
        ELSE IF \E s2 \in Slots : p = TablePage1(s2)
        THEN LET s2 == CHOOSE s \in Slots : p = TablePage1(s)
             IN [s \in Slots |-> IterEntry(k1[s2][s], p, s, TablePage0(s2, s))]
        ELSE LET path == CHOOSE q \in Slots \X Slots : p = TablePage0(q[1], q[2])
             IN [s \in Slots |-> IterEntry(k0[path[1]][path[2]][s], p, s, 0)]]

\* A table that no valid pointer leads to holds nothing.
Linked(k2, k1, k0) ==
    /\ \A s2 \in Slots : k2[s2] # "ptr" => \A s \in Slots : k1[s2][s] = "invalid"
    /\ \A s2 \in Slots : \A s1 \in Slots :
          (k2[s2] # "ptr" \/ k1[s2][s1] # "ptr") =>
              \A s \in Slots : k0[s2][s1][s] = "invalid"

\* entries[top_index]
entry_at(entries, top_index) ==
    IF top_index \in DOMAIN entries THEN entries[top_index] ELSE new_invalid

\* PageTableIterator::new
PageTableIterator_new(tables) ==
    [tables |-> tables, index_2 |-> 0, index_1 |-> 0, index_0 |-> 0,
     absolute_index |-> 0,
     yielded |-> <<>>, done |-> FALSE, panicked |-> FALSE, calls |-> 0]

\* What get_next_entry returns: the entry found if any, the indices as it
\* leaves them, and whether it panicked.
Found(entry, indices) == [some |-> TRUE, entry |-> entry, indices |-> indices, panic |-> FALSE]

NotFound(indices) ==
    [some |-> FALSE, entry |-> new_invalid, indices |-> indices, panic |-> FALSE]

OutOfBounds(indices) ==
    [some |-> FALSE, entry |-> new_invalid, indices |-> indices, panic |-> TRUE]

RECURSIVE get_next_entry(_, _, _)
RECURSIVE get_next_entry_loop(_, _, _, _)

\* The first index from top_index on whose entry is valid, PAGE_TABLE_SIZE
\* when the for loop finds none: the loop passes over invalid entries.
first_valid(entries, top_index) ==
    LET valid == {i \in DOMAIN entries : i >= top_index /\ is_valid(entries[i])}
    IN IF valid = {} THEN PAGE_TABLE_SIZE
       ELSE CHOOSE i \in valid : \A k \in valid : i <= k

\* The for loop of get_next_entry from top_index on, and the statements after
\* it: *indices[1] = 0 indexes a slice of length 1 out of bounds.
get_next_entry_loop(tables, entries, indices, top_index) ==
    LET valid_index == first_valid(entries, top_index) IN
    IF valid_index >= PAGE_TABLE_SIZE
    THEN LET at == IF top_index < PAGE_TABLE_SIZE
                   THEN [indices EXCEPT ![1] = PAGE_TABLE_SIZE - 1]
                   ELSE indices
         IN IF Len(indices) < MAX_TABLE_INDIRECTIONS
            THEN IF Len(indices) < 2 THEN OutOfBounds(at)
                 ELSE NotFound([at EXCEPT ![2] = 0])
            ELSE NotFound(at)
    ELSE LET at == [indices EXCEPT ![1] = valid_index]
             entry == entry_at(entries, valid_index)
         IN IF is_page_table_ptr(entry)
            THEN Bind(get_next_entry(tables, tables[entry.ppn], Tail(at)),
                      LAMBDA result :
                         IF result.panic \/ result.some
                         THEN [result EXCEPT !.indices = <<valid_index>> \o @]
                         ELSE get_next_entry_loop(tables, entries,
                                                  <<valid_index>> \o result.indices,
                                                  valid_index + 1))
            ELSE Found(entry, at)

\* PageTableIterator::get_next_entry
get_next_entry(tables, entries, indices) ==
    IF Len(indices) = 0 THEN NotFound(indices)
    ELSE get_next_entry_loop(tables, entries, indices, indices[1])

\* PageTableIterator::next: the three index locals start at 0.
PageTableIterator_next(self) ==
    Bind(get_next_entry(self.tables, self.tables[RootPage], <<0, 0, 0>>),
         LAMBDA r :
            IF r.panic THEN [self EXCEPT !.panicked = TRUE, !.calls = @ + 1]
            ELSE IF r.some
            THEN [self EXCEPT !.index_2 = r.indices[1], !.index_1 = r.indices[2],
                              !.index_0 = r.indices[3],
                              !.absolute_index = @ + 1,
                              !.yielded = Append(@, <<self.absolute_index, r.entry>>),
                              !.calls = @ + 1]
            ELSE [self EXCEPT !.index_2 = r.indices[1], !.index_1 = r.indices[2],
                              !.index_0 = r.indices[3],
                              !.done = TRUE, !.calls = @ + 1])

\* next() is called on an iterator that has not returned None.
IterNext ==
    /\ ~it.panicked
    /\ ~it.done
    /\ it.calls < MaxNexts
    /\ it' = PageTableIterator_next(it)
    /\ UNCHANGED <<listVars, ptVars, virtioVars, pteVars, lockVars,
                   ptrVars, bootVars, mmioVars, rq, bd>>

\* page_table.iter() on any table contents.
InitIter ==
    /\ first_page = NONE
    /\ last_page = NONE
    /\ mem = [p \in Pages |-> ClearedPage]
    /\ panic = NoPanic
    /\ call = NoCall
    /\ expected = {}
    /\ runUsed = FALSE
    /\ misuse = FALSE
    /\ root = NONE
    /\ pt = [p \in Pages |-> EmptyTable]
    /\ ptcall = NoPtCall
    /\ InitVirtioVars
    /\ InitPteVars
    /\ InitLockVars
    /\ InitPtrVars
    /\ InitBootVars
    /\ InitMmioVars
    /\ rq = <<>>
    /\ bd = <<>>
    /\ \E k2 \in [Slots -> Kinds] :
       \E k1 \in [Slots -> [Slots -> Kinds]] :
       \E k0 \in [Slots -> [Slots -> [Slots -> {"invalid", "leaf"}]]] :
          /\ Linked(k2, k1, k0)
          /\ it = PageTableIterator_new(IterTables(k2, k1, k0))

NextIter == IterNext

SpecIter == InitIter /\ [][NextIter]_vars

RECURSIVE MappedLeaves(_, _, _)
\* The leaf entries reached from the table in page p, depth levels deep.
MappedLeaves(tables, p, depth) ==
    UNION {IF is_leaf(tables[p][s]) THEN {tables[p][s]}
           ELSE IF is_valid(tables[p][s]) /\ depth > 1
                THEN MappedLeaves(tables, tables[p][s].ppn, depth - 1)
                ELSE {} : s \in DOMAIN tables[p]}

\* C40: iterating a table never panics, yields no leaf twice, and returns
\* None exactly when every mapped leaf has been yielded: the call after the
\* last leaf returns None.
C40_EveryLeafOnce ==
    LET mapped == MappedLeaves(it.tables, RootPage, MAX_TABLE_INDIRECTIONS)
        seen == {it.yielded[i][2] : i \in 1..Len(it.yielded)}
    IN /\ ~it.panicked
       /\ Cardinality(seen) = Len(it.yielded)
       /\ seen \subseteq mapped
       /\ it.done => seen = mapped
       /\ it.calls > Cardinality(mapped) => it.done

============================================================================
